---------------------------- MODULE Spec2Model ----------------------------
(***************************************************************************)
(* Differentiation / style-calibration subsystem of obi-slv2:              *)
(*   utils/style_calibrator.py          StyleCalibrator                    *)
(*   utils/communication_controller.py  CommunicationController           *)
(*   utils/enhanced_conversation_manager.py                                *)
(*                          ProjectFolder, EnhancedConversationManager     *)
(*                                                                         *)
(* Python values are modelled as follows.                                  *)
(*   - Optional[x]: the empty sequence <<>> is None, <<x>> is the value x. *)
(*   - a str: the sequence of its lines (str.split("\n")); "" is <<"">>.   *)
(*   - a communication-control value: a tagged record, so that an int, a   *)
(*     str put where an int is expected stay distinguishable: Num(n),      *)
(*     StrVal.                                                             *)
(*   - a dict with a fixed set of keys of interest: a record that carries  *)
(*     the Python type of the object found there ("dict", "none" for None, *)
(*     "str" for a string, "absent" when the enclosing dict has no such    *)
(*     key) and, for each key, <<>> when the dict lacks the key and <<v>>  *)
(*     when it maps the key to v.                                          *)
(*   - the bullet character that opens an instruction line is written "*". *)
(***************************************************************************)
EXTENDS Integers, Sequences, FiniteSets, TLC

VARIABLES
    managers,      \* thread id -> Optional[EnhancedConversationManager]
    last_call,     \* thread id -> Optional[record of the last calibrate call]
    last_result,   \* thread id -> outcome of the last operation on that thread
    fn_calibrator, \* a stand-alone StyleCalibrator
    fn_controller, \* a stand-alone CommunicationController
    fn_prefs,      \* the raw preference set handed to the stand-alone calibrator
    fn_result,     \* Optional[what the last application returned]
    fn_prev,       \* Optional[level and controls of the application before the last re-level]
    last_request,  \* Optional[the request the last operation sent to the LLM client]
    ac_call,       \* a call of apply_communication_controls: its arguments and result
    race,          \* the steps in flight of an update and a get_response run by two threads
    chat           \* a ConversationContext, the chat storage, and the outcome of the last call on them

vars == <<managers, last_call, last_result,
          fn_calibrator, fn_controller, fn_prefs, fn_result, fn_prev,
          last_request, ac_call, race, chat>>

orchVars == <<managers, last_call, last_result, last_request>>
fnVars == <<fn_calibrator, fn_controller, fn_prefs, fn_result, fn_prev>>
auxVars == <<ac_call, race, chat>>

---------------------------------------------------------------------------
(* Bounds of the model and constants of the program.                       *)

\* Lowest and highest accepted differentiation level.
MinLevel == 0
MaxLevel == 100
\* Band thresholds and the formality/title threshold.
MinimalMax == 30
ModerateMax == 70
FormalityMin == 50
\* The level a controller or manager is given when the caller names none.
DefaultLevel == 75
\* Anchors of a communication control: 1..5, 3 the balanced default,
\* <= 2 the low label, >= 4 the high label.
PrefMin == 1
PrefMax == 5
DefaultControl == 3
LowLabelMax == 2
HighLabelMin == 4
\* How far outside PrefMin..PrefMax a raw control value is drawn.
PrefSlack == 1
\* Longest response text and longest preferred name handed to
\* apply_communication_controls.
MaxTextLen == 3
MaxNameLen == 2

---------------------------------------------------------------------------
(* Python values.                                                          *)

None == <<>>
Some(x) == <<x>>

EmptyStr == <<"">>

Num(n) == [type |-> "int", n |-> n]
StrVal == [type |-> "str", n |-> 0]

IsNum(v) == v.type = "int"

\* str(v) as an f-string renders it.
Fmt(v) == IF v.type = "int" THEN ToString(v.n) ELSE "fast"

ControlKeys == {"interaction_style", "detail_level", "rapport_level"}

\* Mutant of DictGet: the default wins over the entry.
DictGet_default(entry, default) == default

\* dict.get(key, default) on one key of a dict record.
DictGet(entry, default) == IF entry = <<>> THEN default ELSE entry[1]

CommPrefs(t, is, dl, rl) ==
    [type |-> t, interaction_style |-> is, detail_level |-> dl, rapport_level |-> rl]
NamePrefs(t, fl, tr, pt) ==
    [type |-> t, formality_level |-> fl, title_required |-> tr, professional_title |-> pt]
Demographics(t, ac, ps) ==
    [type |-> t, age_category |-> ac, professional_status |-> ps]

AbsentCP == CommPrefs("absent", None, None, None)
AbsentNP == NamePrefs("absent", None, None, None)
AbsentDM == Demographics("absent", None, None)

\* The argument of calibrate_structured_controls.
UserPreferences(cp, np, dm) ==
    [type |-> "dict", communication_preferences |-> cp,
     name_preference |-> np, demographics |-> dm]
\* None handed in place of the preferences dict.
NonePreferences ==
    [type |-> "none", communication_preferences |-> AbsentCP,
     name_preference |-> AbsentNP, demographics |-> AbsentDM]

---------------------------------------------------------------------------
(* StyleCalibrator (utils/style_calibrator.py).                            *)

\* Mutant of SYSTEM_DEFAULTS: two of the defaults are not the documented ones.
SYSTEM_DEFAULTS_drifted ==
    [interaction_style |-> Num(DefaultControl),
     detail_level |-> Num(DefaultControl),
     rapport_level |-> Num(DefaultControl),
     formality_level |-> "semiformal",
     title_required |-> FALSE,
     professional_title |-> "",
     age_category |-> "adult",
     professional_status |-> "active"]

SYSTEM_DEFAULTS ==
    [interaction_style |-> Num(DefaultControl),
     detail_level |-> Num(DefaultControl),
     rapport_level |-> Num(DefaultControl),
     formality_level |-> "formal",
     title_required |-> FALSE,
     professional_title |-> "",
     age_category |-> "adult",
     professional_status |-> "none"]

\* Mutant of LevelInRange: the lower end of the range is not tested.
LevelInRange_no_floor(value) == value <= MaxLevel

\* The range test of StyleCalibrator.__init__ and of the controller.
LevelInRange(value) == MinLevel <= value /\ value <= MaxLevel

\* StyleCalibrator(differentiation_level), for a level that passed the test.
StyleCalibrator_init(differentiation_level) ==
    [level |-> differentiation_level, last |-> None]

\* The statements of calibrate_structured_controls that raise inside its try:
\* .get on a preferences object that is no dict, `key not in None`, None.get.
CalibrateRaises(user_preferences) ==
    \/ user_preferences.type # "dict"
    \/ user_preferences.communication_preferences.type = "none"
    \/ user_preferences.name_preference.type = "none"
    \/ user_preferences.demographics.type = "none"

\* Mutant of RawOrDefault: every control is read under the first key.
RawOrDefault_first_key(comm_prefs, key) ==
    IF comm_prefs.type = "dict" /\ comm_prefs[key] # None
    THEN (IF comm_prefs.interaction_style # None
          THEN comm_prefs.interaction_style[1]
          ELSE SYSTEM_DEFAULTS[key])
    ELSE SYSTEM_DEFAULTS[key]

\* The three numeric controls: the raw value where the key is in comm_prefs,
\* the system default where it is not.
RawOrDefault(comm_prefs, key) ==
    IF comm_prefs.type = "dict" /\ comm_prefs[key] # None
    THEN comm_prefs[key][1]
    ELSE SYSTEM_DEFAULTS[key]

\* calibrate_structured_controls around a given choice of the three numeric
\* controls: the frame the mutants below share.
CalibrateFrame(self, user_preferences, numeric) ==
    IF CalibrateRaises(user_preferences)
    THEN [self |-> [self EXCEPT !.last = None], ret |-> SYSTEM_DEFAULTS]
    ELSE LET name_prefs == user_preferences.name_preference
             demographics == user_preferences.demographics
         IN  [self |-> [self EXCEPT !.last = Some(numeric)],
              ret |-> [interaction_style |-> numeric.interaction_style,
                       detail_level |-> numeric.detail_level,
                       rapport_level |-> numeric.rapport_level,
                       formality_level |->
                           DictGet(name_prefs.formality_level, SYSTEM_DEFAULTS.formality_level),
                       title_required |->
                           DictGet(name_prefs.title_required, SYSTEM_DEFAULTS.title_required),
                       professional_title |->
                           DictGet(name_prefs.professional_title, SYSTEM_DEFAULTS.professional_title),
                       age_category |->
                           DictGet(demographics.age_category, SYSTEM_DEFAULTS.age_category),
                       professional_status |->
                           DictGet(demographics.professional_status,
                                   SYSTEM_DEFAULTS.professional_status)]]

\* A key the preferences lack keeps the value of the calibrator's previous
\* calibration in place of the system default.
PickSticky(self, comm_prefs, key) ==
    IF comm_prefs.type = "dict" /\ comm_prefs[key] # None
    THEN comm_prefs[key][1]
    ELSE IF self.last # None THEN self.last[1][key] ELSE SYSTEM_DEFAULTS[key]

\* Mutant of calibrate_structured_controls: the result depends on what the
\* calibrator calibrated before.
calibrate_sticky(self, user_preferences) ==
    LET comm_prefs == user_preferences.communication_preferences
    IN  CalibrateFrame(self, user_preferences,
            [interaction_style |-> PickSticky(self, comm_prefs, "interaction_style"),
             detail_level |-> PickSticky(self, comm_prefs, "detail_level"),
             rapport_level |-> PickSticky(self, comm_prefs, "rapport_level")])

\* The raw value counts only in the minimal band; above it the default does.
PickInverted(self, comm_prefs, key) ==
    IF comm_prefs.type = "dict" /\ comm_prefs[key] # None /\ self.level <= MinimalMax
    THEN comm_prefs[key][1]
    ELSE SYSTEM_DEFAULTS[key]

\* Mutant of calibrate_structured_controls: the bands are applied upside down.
calibrate_inverted(self, user_preferences) ==
    LET comm_prefs == user_preferences.communication_preferences
    IN  CalibrateFrame(self, user_preferences,
            [interaction_style |-> PickInverted(self, comm_prefs, "interaction_style"),
             detail_level |-> PickInverted(self, comm_prefs, "detail_level"),
             rapport_level |-> PickInverted(self, comm_prefs, "rapport_level")])

\* calibrate_structured_controls(self, user_preferences):
\* the calibrator after the call and the dict returned.
calibrate_structured_controls(self, user_preferences) ==
    IF CalibrateRaises(user_preferences)
    THEN [self |-> [self EXCEPT !.last = None], ret |-> SYSTEM_DEFAULTS]
    ELSE LET comm_prefs == user_preferences.communication_preferences
             name_prefs == user_preferences.name_preference
             demographics == user_preferences.demographics
             numeric == [interaction_style |-> RawOrDefault(comm_prefs, "interaction_style"),
                         detail_level |-> RawOrDefault(comm_prefs, "detail_level"),
                         rapport_level |-> RawOrDefault(comm_prefs, "rapport_level")]
         IN  [self |-> [self EXCEPT !.last = Some(numeric)],
              ret |-> [interaction_style |-> numeric.interaction_style,
                       detail_level |-> numeric.detail_level,
                       rapport_level |-> numeric.rapport_level,
                       formality_level |->
                           DictGet(name_prefs.formality_level, SYSTEM_DEFAULTS.formality_level),
                       title_required |->
                           DictGet(name_prefs.title_required, SYSTEM_DEFAULTS.title_required),
                       professional_title |->
                           DictGet(name_prefs.professional_title, SYSTEM_DEFAULTS.professional_title),
                       age_category |->
                           DictGet(demographics.age_category, SYSTEM_DEFAULTS.age_category),
                       professional_status |->
                           DictGet(demographics.professional_status,
                                   SYSTEM_DEFAULTS.professional_status)]]

\* level_desc of _generate_behavioral_instructions.
level_desc(level) ==
    IF level <= MinimalMax THEN "minimal"
    ELSE IF level <= ModerateMax THEN "moderate"
    ELSE "strict"

\* level_desc of get_case_file_display.
display_level_desc(level) ==
    IF level <= MinimalMax THEN "Minimal"
    ELSE IF level <= ModerateMax THEN "Moderate"
    ELSE "Strict"

\* Mutant of interaction_label: the low label stops short of LowLabelMax.
interaction_label_short(v) ==
    IF v.n < LowLabelMax THEN "methodical"
    ELSE IF v.n >= HighLabelMin THEN "efficient" ELSE "balanced"

\* The qualitative label each restated control carries.
interaction_label(v) ==
    IF v.n <= LowLabelMax THEN "methodical"
    ELSE IF v.n >= HighLabelMin THEN "efficient" ELSE "balanced"
detail_label(v) ==
    IF v.n <= LowLabelMax THEN "maximum"
    ELSE IF v.n >= HighLabelMin THEN "minimal" ELSE "balanced"
rapport_label(v) ==
    IF v.n <= LowLabelMax THEN "personal"
    ELSE IF v.n >= HighLabelMin THEN "professional" ELSE "balanced"

\* The guidance lines of _generate_behavioral_instructions, one group a control.
sc_interaction_guidance(v) ==
    IF v.n <= LowLabelMax
    THEN <<"* Break down information into clear steps",
           "* Provide structured, methodical guidance">>
    ELSE IF v.n >= HighLabelMin
    THEN <<"* Communicate directly and efficiently",
           "* Focus on key points and actions">>
    ELSE <<>>
sc_detail_guidance(v) ==
    IF v.n <= LowLabelMax
    THEN <<"* Include comprehensive explanations",
           "* Provide relevant background information">>
    ELSE IF v.n >= HighLabelMin
    THEN <<"* Focus on essential information only",
           "* Keep explanations brief and targeted">>
    ELSE <<>>
sc_rapport_guidance(v) ==
    IF v.n <= LowLabelMax
    THEN <<"* Maintain a warm, personal approach",
           "* Show empathy and understanding">>
    ELSE IF v.n >= HighLabelMin
    THEN <<"* Keep tone formal and professional",
           "* Focus on facts and procedures">>
    ELSE <<>>

\* The application guidance of _generate_behavioral_instructions.
application_guidance(level) ==
    IF level <= MinimalMax
    THEN <<"* Default to standardized responses and procedures",
           "* Consider preferences as minor adjustments only",
           "* Keep responses primarily protocol-focused",
           "* Use personal context only when directly relevant">>
    ELSE IF level <= ModerateMax
    THEN <<"* Balance standard procedures with preferences",
           "* Incorporate preferences while maintaining protocol",
           "* Adapt responses while staying process-focused",
           "* Use context to enhance understanding when appropriate">>
    ELSE <<"* Make user preferences your primary guide",
           "* Fully embrace the preferred communication style",
           "* Maintain professionalism while maximizing personalization",
           "* Actively use context to enhance relevance">>

\* The title and formality lines of _generate_behavioral_instructions.
formality_directives(level, controls) ==
    IF level > FormalityMin
    THEN (IF controls.title_required /\ controls.professional_title # ""
          THEN <<"* Use title: " \o controls.professional_title>>
          ELSE <<>>)
         \o <<"* Maintain " \o controls.formality_level \o " tone">>
    ELSE <<>>

\* A comparison of a control with a number raises TypeError on a str.
ComparisonRaises(controls) ==
    \E key \in ControlKeys : ~IsNum(controls[key])

\* _generate_behavioral_instructions(self, controls): the text, or the
\* TypeError that leaves the method (it has no try).
generate_behavioral_instructions(self, controls) ==
    IF ComparisonRaises(controls)
    THEN [raised |-> TRUE, text |-> EmptyStr]
    ELSE [raised |-> FALSE,
          text |->
            << "Please adjust your communication style:",
               "* Interaction Style: " \o Fmt(controls.interaction_style)
                   \o " (" \o interaction_label(controls.interaction_style) \o ")",
               "* Detail Level: " \o Fmt(controls.detail_level)
                   \o " (" \o detail_label(controls.detail_level) \o ")",
               "* Rapport Level: " \o Fmt(controls.rapport_level)
                   \o " (" \o rapport_label(controls.rapport_level) \o ")",
               "",
               "Apply these preferences with " \o level_desc(self.level)
                   \o " adherence (" \o ToString(self.level)
                   \o "% differentiation level).",
               "",
               "Behavioral Guidance:" >>
            \o sc_interaction_guidance(controls.interaction_style)
            \o sc_detail_guidance(controls.detail_level)
            \o sc_rapport_guidance(controls.rapport_level)
            \o << "", "Application Guidance:" >>
            \o application_guidance(self.level)
            \o formality_directives(self.level, controls)]

\* StyleCalibrator.get_case_file_display(self).
sc_get_case_file_display(self) ==
    IF self.last = None
    THEN << "**COMMUNICATION PARAMETERS**", "No calibration data available" >>
    ELSE << "**COMMUNICATION PARAMETERS**",
            "Interaction Style: " \o Fmt(self.last[1].interaction_style),
            "Detail Level: " \o Fmt(self.last[1].detail_level),
            "Rapport Level: " \o Fmt(self.last[1].rapport_level),
            "Application Level: " \o display_level_desc(self.level)
                \o " (" \o ToString(self.level) \o ".0)" >>

---------------------------------------------------------------------------
(* CommunicationController (utils/communication_controller.py).            *)

\* CommunicationController(differentiation_level), the level in range.
CommunicationController_init(differentiation_level) ==
    [level |-> differentiation_level, last |-> None]

cc_interaction_guidance(v) ==
    IF v.n <= LowLabelMax
    THEN <<"* Provide methodical, step-by-step guidance",
           "* Break down complex topics into manageable steps">>
    ELSE IF v.n >= HighLabelMin
    THEN <<"* Be efficient and direct",
           "* Focus on key points without unnecessary elaboration">>
    ELSE <<"* Balance step-by-step guidance with efficient delivery",
           "* Provide clear structure while maintaining conciseness">>
cc_detail_guidance(v) ==
    IF v.n <= LowLabelMax
    THEN <<"* Provide comprehensive explanations",
           "* Include relevant background information">>
    ELSE IF v.n >= HighLabelMin
    THEN <<"* Keep details minimal and focused",
           "* Include only essential information">>
    ELSE <<"* Maintain balanced detail level",
           "* Include important context without excess">>
cc_rapport_guidance(v) ==
    IF v.n <= LowLabelMax
    THEN <<"* Maintain a warm, personal tone",
           "* Show empathy and acknowledge personal context">>
    ELSE IF v.n >= HighLabelMin
    THEN <<"* Keep tone strictly professional",
           "* Focus on facts and procedures">>
    ELSE <<"* Balance professional and personal elements",
           "* Show appropriate warmth while maintaining professionalism">>

\* Mutant of context_usage: the minimal band ends below MinimalMax.
context_usage_short(level) ==
    IF level < MinimalMax
    THEN <<"* Reference context only for essential details",
           "* Focus on standard procedures",
           "* Maintain formal, protocol-based responses">>
    ELSE IF level <= ModerateMax
    THEN <<"* Incorporate context naturally",
           "* Balance personal details with procedures",
           "* Adapt responses while maintaining focus">>
    ELSE <<"* Fully utilize relevant context",
           "* Personalize responses appropriately",
           "* Maintain professional standards">>

\* The context-usage directives, by band of the level.
context_usage(level) ==
    IF level <= MinimalMax
    THEN <<"* Reference context only for essential details",
           "* Focus on standard procedures",
           "* Maintain formal, protocol-based responses">>
    ELSE IF level <= ModerateMax
    THEN <<"* Incorporate context naturally",
           "* Balance personal details with procedures",
           "* Adapt responses while maintaining focus">>
    ELSE <<"* Fully utilize relevant context",
           "* Personalize responses appropriately",
           "* Maintain professional standards">>

\* generate_style_instructions(self, controls, level): the controller after
\* the call and the text returned ("" when a comparison raised).
generate_style_instructions(self, controls, level) ==
    LET stored == [interaction_style |-> controls.interaction_style,
                   detail_level |-> controls.detail_level,
                   rapport_level |-> controls.rapport_level]
        after == [self EXCEPT !.last = Some(stored)]
    IN  IF ComparisonRaises(controls)
        THEN [self |-> after, ret |-> EmptyStr]
        ELSE [self |-> after,
              ret |->
                << "Please adjust your communication style:",
                   "* Interaction Style: " \o Fmt(stored.interaction_style),
                   "* Detail Level: " \o Fmt(stored.detail_level),
                   "* Rapport Level: " \o Fmt(stored.rapport_level),
                   "",
                   "Behavioral Guidance:" >>
                \o cc_interaction_guidance(stored.interaction_style)
                \o cc_detail_guidance(stored.detail_level)
                \o cc_rapport_guidance(stored.rapport_level)
                \o << "", "Context Usage:" >>
                \o context_usage(level)]

\* Mutant of cc_update_differentiation_level: the value is checked and not
\* stored.
cc_update_differentiation_level_unstored(self, value) == self

\* CommunicationController.update_differentiation_level(self, value), for a
\* value in range.
cc_update_differentiation_level(self, value) == [self EXCEPT !.level = value]

\* The post-processing of a response. Here a str is the sequence of its
\* characters, so that str.replace is computed on substrings; a value found
\* in a preferences dict is tagged with its Python type.
PyStr(v) == [type |-> "str", v |-> v]
PyNone == [type |-> "none", v |-> <<>>]
PyInt == [type |-> "int", v |-> <<>>]
PyBool(b) == [type |-> "bool", v |-> b]

\* bool(v) of a tagged value.
PyTruthy(v) ==
    CASE v.type = "str" -> v.v # <<>>
      [] v.type = "none" -> FALSE
      [] v.type = "int" -> TRUE
      [] v.type = "bool" -> v.v

\* controls['name_preference'] and controls['demographics'] as
\* apply_communication_controls reads them: the Python type of the object
\* and, for a dict, its keys.
ApNamePrefs(t, pn, tr, pt) ==
    [type |-> t, preferred_name |-> pn, title_required |-> tr, professional_title |-> pt]
ApDemographics(t, ac, ps) ==
    [type |-> t, age_category |-> ac, professional_status |-> ps]
ApControls(t, np, dm) == [type |-> t, name_preference |-> np, demographics |-> dm]

\* bool(d) of what controls.get(key, {}) returned: a dict with a key, or a
\* non-empty str.
ApTruthy(d, keys) ==
    \/ d.type = "str"
    \/ d.type = "dict" /\ \E key \in keys : d[key] # None

\* text.replace(old, new) for a non-empty old: the occurrences of old, found
\* from the left and not overlapping, are each replaced by new.
RECURSIVE str_replace(_, _, _)
str_replace(text, old, new) ==
    IF Len(text) < Len(old) THEN text
    ELSE IF SubSeq(text, 1, Len(old)) = old
         THEN new \o str_replace(SubSeq(text, Len(old) + 1, Len(text)), old, new)
         ELSE <<Head(text)>> \o str_replace(Tail(text), old, new)

\* _apply_name_preferences(self, text, name_prefs): the text returned, and
\* whether a statement raised and the except branch returned.
apply_name_preferences(text, name_prefs) ==
    IF name_prefs.type # "dict"
    THEN [ret |-> text, failed |-> TRUE]
    ELSE LET preferred_name == DictGet(name_prefs.preferred_name, PyStr(<<>>))
             title_required == DictGet(name_prefs.title_required, PyNone)
             professional_title == DictGet(name_prefs.professional_title, PyNone)
         IN  IF ~PyTruthy(preferred_name)
             THEN [ret |-> text, failed |-> FALSE]
             ELSE IF PyTruthy(title_required) /\ PyTruthy(professional_title)
             THEN (IF preferred_name.type = "str" /\ professional_title.type = "str"
                   THEN [ret |-> str_replace(text, preferred_name.v,
                                             professional_title.v \o <<" ">>
                                                 \o preferred_name.v),
                         failed |-> FALSE]
                   ELSE [ret |-> text, failed |-> TRUE])
             ELSE [ret |-> text, failed |-> FALSE]

\* _apply_demographic_adaptations(self, text, demographics). The four
\* adaptations it chooses among return their text as it is.
apply_demographic_adaptations(text, demographics) ==
    IF demographics.type # "dict"
    THEN [ret |-> text, failed |-> TRUE]
    ELSE LET age_cat == DictGet(demographics.age_category, PyStr(<<>>))
             prof_status == DictGet(demographics.professional_status, PyStr(<<>>))
         IN  IF age_cat.type # "str" \/ prof_status.type # "str"
             THEN [ret |-> text, failed |-> TRUE]
             ELSE [ret |-> text, failed |-> FALSE]

\* apply_communication_controls(self, response, controls): the controller
\* after the call, the text returned, whether the call raised, and whether a
\* statement raised inside it and was caught.
apply_communication_controls(self, response, controls) ==
    IF controls.type # "dict"
    THEN [self |-> self, ret |-> response, raised |-> FALSE, failed |-> TRUE]
    ELSE LET gen == generate_style_instructions(
                        self,
                        [interaction_style |-> Num(DefaultControl),
                         detail_level |-> Num(DefaultControl),
                         rapport_level |-> Num(DefaultControl)],
                        self.level)
             name_prefs == controls.name_preference
             named == IF ApTruthy(name_prefs,
                                  {"preferred_name", "title_required", "professional_title"})
                      THEN apply_name_preferences(response, name_prefs)
                      ELSE [ret |-> response, failed |-> FALSE]
             demographics == controls.demographics
             adapted == IF ApTruthy(demographics, {"age_category", "professional_status"})
                        THEN apply_demographic_adaptations(named.ret, demographics)
                        ELSE [ret |-> named.ret, failed |-> FALSE]
         IN  [self |-> gen.self, ret |-> adapted.ret, raised |-> FALSE,
              failed |-> named.failed \/ adapted.failed]

---------------------------------------------------------------------------
(* ProjectFolder and EnhancedConversationManager                           *)
(* (utils/enhanced_conversation_manager.py).                               *)
(*                                                                         *)
(* A user profile is the record of what the manager reads of it:           *)
(*   type     "none" for None, "dict" for a dict;                          *)
(*   personal <<>> or <<full_name>>;                                       *)
(*   license  "absent", "dict" (license.current holds an expiration) or    *)
(*            "str" (a string where the license dict is expected);         *)
(*   communication_preferences  metadata.communication_preferences.        *)

Profile(personal, license, comm_prefs) ==
    [type |-> "dict", personal |-> personal, license |-> license,
     communication_preferences |-> comm_prefs]
NoneProfile ==
    [type |-> "none", personal |-> None, license |-> "absent",
     communication_preferences |-> AbsentCP]
\* The empty dict {}.
EmptyProfile == Profile(None, "absent", AbsentCP)

\* Python truthiness of an Optional[dict] profile.
Truthy(profile_opt) == profile_opt # None /\ profile_opt[1] # EmptyProfile

\* "\n".join(lines), as the lines of the joined string.
Join(lines) == IF lines = <<>> THEN EmptyStr ELSE lines

\* The lines of (prefix + text).
Prefixed(prefix, text) == <<prefix \o Head(text)>> \o Tail(text)

ProjectFolder(user_profile, system_prompt, calibrated_controls, latest_calibration_message) ==
    [user_profile |-> user_profile,
     system_prompt |-> system_prompt,
     calibrated_controls |-> calibrated_controls,
     latest_calibration_message |-> latest_calibration_message]

\* get_context_summary raises AttributeError on a license that is no dict.
SummaryRaises(folder) == folder.user_profile.license = "str"

\* ProjectFolder.get_context_summary(self), for a profile it does not raise on.
\* Of the profile it shows the sections the modelled profiles have: a license
\* with an expiration, a full name, and the latest calibration message.
get_context_summary(folder) ==
    LET profile == folder.user_profile
        license == IF profile.license = "dict"
                   THEN << "=== CRITICAL LICENSE INFORMATION ===",
                           "EXPIRATION: 2025-01-01", "" >>
                   ELSE <<>>
        personal == IF profile.personal # None
                    THEN << "=== PERSONAL INFORMATION ===",
                            "Name: " \o profile.personal[1], "" >>
                    ELSE <<>>
        update == IF folder.latest_calibration_message # None
                  THEN << "=== LATEST COMMUNICATION UPDATE ===" >>
                       \o folder.latest_calibration_message[1].content
                       \o << "" >>
                  ELSE <<>>
    IN  Join(license \o personal \o update)

\* EnhancedConversationManager(api_key, differentiation_level), level in range.
EnhancedConversationManager_init(differentiation_level) ==
    [style_calibrator |-> StyleCalibrator_init(differentiation_level),
     communication_controller |-> CommunicationController_init(differentiation_level),
     user_profile |-> None,
     current_project_folder |-> None,
     latest_calibration_message |-> None,
     session_initialized |-> FALSE,
     system_prompt |-> None]

\* Mutant of get_communication_preferences: the preferences are looked up at
\* the top level of the profile, where they are not.
get_communication_preferences_top_level(self) ==
    IF ~Truthy(self.user_profile)
    THEN UserPreferences(AbsentCP, AbsentNP, AbsentDM)
    ELSE UserPreferences(CommPrefs("dict", None, None, None), AbsentNP, AbsentDM)

\* _get_communication_preferences(self).
get_communication_preferences(self) ==
    IF ~Truthy(self.user_profile)
    THEN UserPreferences(AbsentCP, AbsentNP, AbsentDM)
    ELSE LET preferences == self.user_profile[1].communication_preferences
         IN  UserPreferences(
                 IF preferences.type = "absent"
                 THEN CommPrefs("dict", None, None, None)
                 ELSE preferences,
                 AbsentNP, AbsentDM)

\* The fixed part of system_template (its prose is abridged to its first and
\* last line), followed by the formatted context summary.
SystemTemplate(context_summary) ==
    << "SYSTEM RULES:", "USER CONTEXT:" >> \o context_summary

\* Mutant of update_system_prompt: a system prompt the manager already has is
\* kept.
update_system_prompt_once(self) ==
    IF ~Truthy(self.user_profile)
    THEN [self |-> self, raised |-> FALSE, ret |-> None]
    ELSE LET cal == calibrate_structured_controls(
                        self.style_calibrator, get_communication_preferences(self))
             s1 == [self EXCEPT !.style_calibrator = cal.self]
         IN  IF self.current_project_folder # None
                /\ SummaryRaises(self.current_project_folder[1])
             THEN [self |-> s1, raised |-> TRUE, ret |-> Some(cal.ret)]
             ELSE [self |->
                     [s1 EXCEPT !.system_prompt =
                         IF self.system_prompt # None /\ self.system_prompt # Some(EmptyStr)
                         THEN self.system_prompt
                         ELSE Some(SystemTemplate(
                                       get_context_summary(self.current_project_folder[1])))],
                   raised |-> FALSE, ret |-> Some(cal.ret)]

\* _update_system_prompt(self): the manager after the call, whether the call
\* raised, and what its own call of calibrate_structured_controls returned.
update_system_prompt(self) ==
    IF ~Truthy(self.user_profile)
    THEN [self |-> self, raised |-> FALSE, ret |-> None]
    ELSE LET cal == calibrate_structured_controls(
                        self.style_calibrator, get_communication_preferences(self))
             s1 == [self EXCEPT !.style_calibrator = cal.self]
         IN  IF self.current_project_folder # None
                /\ SummaryRaises(self.current_project_folder[1])
             THEN [self |-> s1, raised |-> TRUE, ret |-> Some(cal.ret)]
             ELSE [self |->
                     [s1 EXCEPT !.system_prompt =
                         Some(IF self.current_project_folder # None
                              THEN SystemTemplate(
                                       get_context_summary(self.current_project_folder[1]))
                              ELSE SystemTemplate(<< "{context_summary}" >>))],
                   raised |-> FALSE, ret |-> Some(cal.ret)]

\* initialize_session(self, user_profile): the manager after the call, whether
\* the call raised, and its calls of calibrate_structured_controls: the level
\* and preferences they were made with, what the first returned (ret) and what
\* the one inside _update_system_prompt returned (again).
initialize_session(self, user_profile) ==
    IF user_profile.type = "none"
    THEN [self |-> self, raised |-> TRUE, calls |-> <<>>]
    ELSE LET s1 == [self EXCEPT !.user_profile = Some(user_profile)]
             preferences == get_communication_preferences(s1)
             cal == calibrate_structured_controls(s1.style_calibrator, preferences)
             s2 == [s1 EXCEPT
                      !.style_calibrator = cal.self,
                      !.current_project_folder =
                          Some(ProjectFolder(user_profile, Some(EmptyStr), cal.ret, None))]
             upd == update_system_prompt(s2)
             call == [level |-> s1.style_calibrator.level,
                      preferences |-> preferences, ret |-> cal.ret,
                      again |-> upd.ret]
         IN  IF upd.raised
             THEN [self |-> upd.self, raised |-> TRUE, calls |-> <<call>>]
             ELSE [self |-> [upd.self EXCEPT !.session_initialized = TRUE],
                   raised |-> FALSE, calls |-> <<call>>]

\* update_differentiation_level(self, value).
update_differentiation_level(self, value) ==
    IF ~LevelInRange(value)
    THEN [self |-> self, raised |-> TRUE, calls |-> <<>>]
    ELSE LET s1 == [self EXCEPT
                      !.style_calibrator = StyleCalibrator_init(value),
                      !.communication_controller =
                          cc_update_differentiation_level(@, value)]
         IN  IF ~(s1.session_initialized /\ Truthy(s1.user_profile))
             THEN [self |-> s1, raised |-> FALSE, calls |-> <<>>]
             ELSE LET preferences == get_communication_preferences(s1)
                      cal == calibrate_structured_controls(s1.style_calibrator, preferences)
                      gen == generate_style_instructions(
                                 s1.communication_controller, cal.ret, cal.self.level)
                      message == [role |-> "assistant",
                                  content |-> Prefixed("[COMMUNICATION UPDATE] ", gen.ret)]
                      s2 == [s1 EXCEPT
                               !.style_calibrator = cal.self,
                               !.communication_controller = gen.self,
                               !.latest_calibration_message = Some(message),
                               !.current_project_folder =
                                   Some(ProjectFolder(s1.user_profile[1], s1.system_prompt,
                                                      cal.ret, Some(message)))]
                      upd == update_system_prompt(s2)
                      call == [level |-> s1.style_calibrator.level,
                               preferences |-> preferences, ret |-> cal.ret,
                      again |-> upd.ret]
                  IN  [self |-> upd.self, raised |-> upd.raised, calls |-> <<call>>]

\* An entry of context['previous_messages']: a dict with a role, a content
\* and the visible flag of the Message it was made from.
HistoryEntry(role, content, visible) ==
    [role |-> role, content |-> content, visible |-> visible]

\* The context argument of get_response: None, or a dict that has the key
\* previous_messages (<<history>>) or lacks it (<<>>).
NoneContext == [type |-> "none", previous_messages |-> None]
Context(previous_messages) == [type |-> "dict", previous_messages |-> previous_messages]

\* A message dict sent to the LLM client.
OutMessage(role, content) == [role |-> role, content |-> content]

\* ConversationManager._create_prompt(self, messages, current_query,
\* doc_context): the messages that are visible and not of the system role,
\* then the query with the document context.
create_prompt(messages, current_query, doc_context) ==
    LET kept == SelectSeq(messages, LAMBDA msg : msg.role # "system" /\ msg.visible)
    IN  [i \in 1..Len(kept) |-> OutMessage(kept[i].role, kept[i].content)]
        \o <<OutMessage("user", current_query
                                    \o <<"", "Relevant Document Context:">>
                                    \o doc_context)>>

\* display_chat_messages(messages): the chat messages rendered, in order.
display_chat_messages(messages) ==
    LET shown == SelectSeq(messages, LAMBDA msg : msg.role # "system" /\ msg.visible)
    IN  [i \in 1..Len(shown) |-> OutMessage(shown[i].role, shown[i].content)]

\* Mutant of filter_history: every entry is copied, whatever its role.
filter_history_any_role(previous_messages) ==
    [i \in 1..Len(previous_messages) |->
        OutMessage(previous_messages[i].role, previous_messages[i].content)]

\* The loop of get_response over context['previous_messages']: the entries
\* whose role is user or assistant, each copied with its role and content.
filter_history(previous_messages) ==
    LET kept == SelectSeq(previous_messages,
                          LAMBDA prev_msg : prev_msg.role \in {"user", "assistant"})
    IN  [i \in 1..Len(kept) |-> OutMessage(kept[i].role, kept[i].content)]

\* The message array get_response builds from the context, the latest
\* calibration message and the new message.
assemble_messages(self, message, context) ==
    LET history == IF context.type = "dict" /\ context.previous_messages # None
                   THEN filter_history(context.previous_messages[1])
                   ELSE <<>>
        calibration ==
            IF self.latest_calibration_message # None
               /\ (history = <<>>
                   \/ history[Len(history)] # self.latest_calibration_message[1])
            THEN <<self.latest_calibration_message[1]>>
            ELSE <<>>
    IN  history \o calibration \o <<OutMessage("user", message)>>

\* Mutant of get_response: the request is assembled and sent whether or not
\* the session is initialized.
get_response_unchecked(self, message, context) ==
    [raised |-> FALSE,
     request |-> Some([messages |-> assemble_messages(self, message, context),
                       system |-> self.system_prompt])]

\* get_response(self, message, context) up to the call of the LLM client:
\* whether it raised before, and the request it sent. The manager is not
\* changed, and what the client answers is returned to the caller as it is.
get_response(self, message, context) ==
    IF ~self.session_initialized
    THEN [raised |-> TRUE, request |-> None]
    ELSE [raised |-> FALSE,
          request |-> Some([messages |-> assemble_messages(self, message, context),
                            system |-> self.system_prompt])]

---------------------------------------------------------------------------
(* The orchestrators: one EnhancedConversationManager a thread.            *)

\* Spec runs one manager on the full input sets; PairSpec runs two managers,
\* for two thread ids, on smaller ones.
Threads == {"t1"}
PairThreads == {"t1", "t2"}

\* The levels a caller constructs or updates a manager with.
OrchLevels == {MinLevel - 1, MinLevel, 10, 40, 85, MaxLevel, MaxLevel + 1}

Alice == Profile(Some("Alice"), "dict",
                 CommPrefs("dict", Some(Num(1)), Some(Num(1)), Some(Num(5))))
\* A raw value above PrefMax and a key that is absent.
Bob == Profile(Some("Bob"), "absent",
               CommPrefs("dict", Some(Num(PrefMax + 2)), None, Some(Num(4))))
\* A str where a number is expected.
Carol == Profile(Some("Carol"), "dict",
                 CommPrefs("dict", Some(StrVal), Some(Num(2)), Some(Num(3))))
\* metadata.communication_preferences is None.
Dave == Profile(None, "dict", CommPrefs("none", None, None, None))
\* A license that is no dict.
Erin == Profile(Some("Erin"), "str",
                CommPrefs("dict", Some(Num(3)), Some(Num(3)), Some(Num(3))))

OrchProfiles == {NoneProfile, EmptyProfile, Alice, Bob, Carol, Dave, Erin}

PairLevels == {10, 85, MaxLevel + 1}
PairProfiles == {Alice, Bob}

NoOp == [thread |-> "", op |-> "", value |-> 0, raised |-> FALSE]

OrchInit(T) ==
    /\ managers = [t \in T |-> None]
    /\ last_call = [t \in T |-> None]
    /\ last_result = NoOp
    /\ last_request = None

\* No stand-alone calibrator is exercised beside the orchestrators.
FnIdle ==
    /\ fn_calibrator = StyleCalibrator_init(MinLevel)
    /\ fn_controller = CommunicationController_init(MinLevel)
    /\ fn_prefs = NonePreferences
    /\ fn_result = None
    /\ fn_prev = None

\* No stand-alone call of apply_communication_controls, no steps in flight.
AuxIdle ==
    /\ ac_call = None
    /\ race = None
    /\ chat = None

Init == OrchInit(Threads) /\ FnIdle /\ AuxIdle

\* EnhancedConversationManager(api_key, level) for thread t.
Create(t, level) ==
    /\ managers[t] = None
    /\ managers' = IF LevelInRange(level)
                   THEN [managers EXCEPT ![t] = Some(EnhancedConversationManager_init(level))]
                   ELSE managers
    /\ last_result' = [thread |-> t, op |-> "create", value |-> level,
                       raised |-> ~LevelInRange(level)]
    /\ last_request' = None
    /\ UNCHANGED <<last_call, fnVars, auxVars>>

\* managers[t].initialize_session(profile).
InitializeSession(t, profile) ==
    /\ managers[t] # None
    /\ LET r == initialize_session(managers[t][1], profile)
       IN  /\ managers' = [managers EXCEPT ![t] = Some(r.self)]
           /\ last_call' = IF r.calls # <<>>
                           THEN [last_call EXCEPT ![t] = r.calls]
                           ELSE last_call
           /\ last_result' = [thread |-> t, op |-> "initialize_session", value |-> 0,
                              raised |-> r.raised]
    /\ last_request' = None
    /\ UNCHANGED <<fnVars, auxVars>>

\* Mutant of UpdateLevel: the level is set on every manager there is, not
\* only on the one of thread t.
UpdateLevel_every(t, value) ==
    /\ managers[t] # None
    /\ LET r == update_differentiation_level(managers[t][1], value)
       IN  /\ managers' = [u \in DOMAIN managers |->
                              IF managers[u] = None THEN None
                              ELSE Some(update_differentiation_level(
                                            managers[u][1], value).self)]
           /\ last_call' = IF r.calls # <<>>
                           THEN [last_call EXCEPT ![t] = r.calls]
                           ELSE last_call
           /\ last_result' = [thread |-> t, op |-> "update_differentiation_level",
                              value |-> value, raised |-> r.raised]
    /\ last_request' = None
    /\ UNCHANGED <<fnVars, auxVars>>

\* managers[t].update_differentiation_level(value).
UpdateLevel(t, value) ==
    /\ managers[t] # None
    /\ LET r == update_differentiation_level(managers[t][1], value)
       IN  /\ managers' = [managers EXCEPT ![t] = Some(r.self)]
           /\ last_call' = IF r.calls # <<>>
                           THEN [last_call EXCEPT ![t] = r.calls]
                           ELSE last_call
           /\ last_result' = [thread |-> t, op |-> "update_differentiation_level",
                              value |-> value, raised |-> r.raised]
    /\ last_request' = None
    /\ UNCHANGED <<fnVars, auxVars>>

\* The histories a caller hands to get_response. The first turn of a
\* conversation is the synthetic "Hello?", which is not visible.
Histories ==
    { <<>>,
      << HistoryEntry("user", <<"Hello?">>, FALSE),
         HistoryEntry("assistant", <<"Welcome.">>, TRUE) >>,
      << HistoryEntry("system", <<"You are a professional guide.">>, TRUE),
         HistoryEntry("user", <<"What do I need?">>, TRUE),
         HistoryEntry("assistant", <<"Two documents.">>, TRUE) >> }

\* The contexts of a manager: None, a dict without previous_messages, and
\* every history, alone or followed by the manager's calibration message as
\* the turn delivered last.
ContextsOf(self) ==
    {NoneContext, Context(None)}
    \cup {Context(Some(h)) : h \in Histories}
    \cup (IF self.latest_calibration_message = None THEN {}
          ELSE {Context(Some(h \o <<HistoryEntry(
                                         self.latest_calibration_message[1].role,
                                         self.latest_calibration_message[1].content,
                                         TRUE)>>)) : h \in Histories})

Queries == {<<"How do I renew?">>}

\* managers[t].get_response(message, context).
GetResponse(t, message, context) ==
    /\ managers[t] # None
    /\ LET r == get_response(managers[t][1], message, context)
       IN  /\ last_result' = [thread |-> t, op |-> "get_response", value |-> 0,
                              raised |-> r.raised]
           /\ last_request' =
                  IF r.request = None THEN None
                  ELSE Some([thread |-> t, message |-> message, context |-> context,
                             messages |-> r.request[1].messages,
                             system |-> r.request[1].system])
    /\ UNCHANGED <<managers, last_call, fnVars, auxVars>>

Next ==
    \/ \E t \in Threads, level \in OrchLevels : Create(t, level)
    \/ \E t \in Threads, profile \in OrchProfiles : InitializeSession(t, profile)
    \/ \E t \in Threads, value \in OrchLevels : UpdateLevel(t, value)
    \/ \E t \in Threads, message \in Queries :
          /\ managers[t] # None
          /\ \E context \in ContextsOf(managers[t][1]) : GetResponse(t, message, context)

Spec == Init /\ [][Next]_vars

PairInit == OrchInit(PairThreads) /\ FnIdle /\ AuxIdle

PairNext ==
    \/ \E t \in PairThreads, level \in PairLevels : Create(t, level)
    \/ \E t \in PairThreads, profile \in PairProfiles : InitializeSession(t, profile)
    \/ \E t \in PairThreads, value \in PairLevels : UpdateLevel(t, value)
    \/ \E t \in PairThreads, message \in Queries :
          /\ managers[t] # None
          /\ \E context \in ContextsOf(managers[t][1]) : GetResponse(t, message, context)

PairSpec == PairInit /\ [][PairNext]_vars

---------------------------------------------------------------------------
(* The stand-alone calibrator and controller: calibration and instruction  *)
(* generation applied, as functions, to inputs drawn from bounded sets.    *)

\* The levels a stand-alone calibrator is constructed with: the ends of the
\* range and both sides of every threshold.
FnLevels == {MinLevel, 10, 25, 26, MinimalMax, MinimalMax + 1, FormalityMin,
             FormalityMin + 1, ModerateMax, ModerateMax + 1, MaxLevel}

\* A key of communication_preferences: absent, or a number in or just
\* outside PrefMin..PrefMax.
RawEntries ==
    {None} \cup {Some(Num(n)) : n \in (PrefMin - PrefSlack)..(PrefMax + PrefSlack)}

FnCommPrefs ==
    {CommPrefs("dict", is, dl, rl) : is \in RawEntries, dl \in RawEntries, rl \in RawEntries}
    \cup {AbsentCP,
          CommPrefs("none", None, None, None),
          CommPrefs("str", None, None, None),
          CommPrefs("dict", Some(StrVal), Some(Num(2)), Some(Num(4))),
          CommPrefs("dict", Some(Num(1)), None, Some(StrVal))}

FnNamePrefs ==
    {NamePrefs("dict", fl, tr, pt) :
        fl \in {None, Some("formal"), Some("semiformal"), Some("informal")},
        tr \in {None, Some(TRUE), Some(FALSE)},
        pt \in {None, Some(""), Some("Dr.")}}
    \cup {AbsentNP, NamePrefs("none", None, None, None)}

FnDemographics ==
    {Demographics("dict", ac, ps) :
        ac \in {None, Some("senior"), Some("adult"), Some("youth")},
        ps \in {None, Some("active"), Some("retired"), Some("student"), Some("none")}}
    \cup {AbsentDM, Demographics("none", None, None)}

SampleCP == CommPrefs("dict", Some(Num(1)), Some(Num(1)), Some(Num(5)))
SampleNP == NamePrefs("dict", Some("informal"), Some(TRUE), Some("Dr."))
SampleDM == Demographics("dict", Some("senior"), Some("retired"))

\* Every communication_preferences alone, every name_preference and every
\* demographics beside a sample of the other two, and None for the dict.
FnPrefs ==
    {UserPreferences(cp, AbsentNP, AbsentDM) : cp \in FnCommPrefs}
    \cup {UserPreferences(SampleCP, np, dm) : np \in FnNamePrefs, dm \in {AbsentDM, SampleDM}}
    \cup {UserPreferences(cp, SampleNP, dm) : cp \in {AbsentCP, SampleCP}, dm \in FnDemographics}
    \cup {NonePreferences}

FnInit ==
    /\ OrchInit(Threads)
    /\ \E level \in FnLevels :
          /\ fn_calibrator = StyleCalibrator_init(level)
          /\ fn_controller = CommunicationController_init(level)
    /\ fn_prefs \in FnPrefs
    /\ fn_result = None
    /\ fn_prev = None
    /\ AuxIdle

\* calibrate_structured_controls(fn_prefs) on the calibrator, then, from the
\* controls it returned, both instruction texts and the case-file display.
FnApply ==
    LET cal == calibrate_structured_controls(fn_calibrator, fn_prefs)
        gen == generate_style_instructions(fn_controller, cal.ret, cal.self.level)
    IN  /\ fn_calibrator' = cal.self
        /\ fn_controller' = gen.self
        /\ fn_result' = Some([level |-> cal.self.level,
                              controls |-> cal.ret,
                              behavioral |-> generate_behavioral_instructions(cal.self, cal.ret),
                              style |-> gen.ret,
                              display |-> sc_get_case_file_display(cal.self)])
        /\ UNCHANGED <<fn_prefs, fn_prev, orchVars, auxVars>>

\* A new StyleCalibrator(level) replaces the calibrator and the controller
\* takes the level, as update_differentiation_level does it.
FnRelevel(level) ==
    /\ fn_calibrator' = StyleCalibrator_init(level)
    /\ fn_controller' = cc_update_differentiation_level(fn_controller, level)
    /\ fn_prev' = IF fn_result # None
                  THEN Some([level |-> fn_result[1].level, controls |-> fn_result[1].controls])
                  ELSE fn_prev
    /\ fn_result' = None
    /\ UNCHANGED <<fn_prefs, orchVars, auxVars>>

FnNext ==
    \/ FnApply
    \/ \E level \in FnLevels : FnRelevel(level)

FnSpec == FnInit /\ [][FnNext]_vars

---------------------------------------------------------------------------
(* Post-processing: apply_communication_controls applied, as a function,    *)
(* to responses and controls drawn from bounded sets.                       *)

Chars == {"a", "b"}
Strings(n) == UNION {[1..k -> Chars] : k \in 0..n}

ApTexts == Strings(MaxTextLen)

ApNameValues ==
    {None, Some(PyInt)} \cup {Some(PyStr(name)) : name \in Strings(MaxNameLen)}

ApNamePrefsSet ==
    {ApNamePrefs("dict", pn, tr, pt) :
        pn \in ApNameValues,
        tr \in {None, Some(PyBool(TRUE)), Some(PyBool(FALSE))},
        pt \in {None, Some(PyStr(<<>>)), Some(PyStr(<<"D">>))}}
    \cup {ApNamePrefs(t, None, None, None) : t \in {"absent", "none", "str"}}

ApDemographicsSet ==
    {ApDemographics("dict", ac, ps) :
        ac \in {None, Some(PyStr(<<"senior">>)), Some(PyStr(<<"youth">>)), Some(PyNone)},
        ps \in {None, Some(PyStr(<<"active">>)), Some(PyStr(<<"retired">>))}}
    \cup {ApDemographics(t, None, None) : t \in {"absent", "none", "str"}}

ApControlsSet ==
    {ApControls("dict", np, dm) : np \in ApNamePrefsSet, dm \in ApDemographicsSet}
    \cup {ApControls("none", ApNamePrefs("absent", None, None, None),
                      ApDemographics("absent", None, None))}

ApInit ==
    /\ OrchInit(Threads)
    /\ FnIdle
    /\ race = None
    /\ chat = None
    /\ \E response \in ApTexts, controls \in ApControlsSet :
          ac_call = Some([controller |-> CommunicationController_init(DefaultLevel),
                          response |-> response, controls |-> controls,
                          result |-> None])

\* controller.apply_communication_controls(response, controls).
ApApply ==
    /\ ac_call # None
    /\ ac_call[1].result = None
    /\ LET r == apply_communication_controls(ac_call[1].controller, ac_call[1].response,
                                             ac_call[1].controls)
       IN  ac_call' = Some([ac_call[1] EXCEPT
                               !.controller = r.self,
                               !.result = Some([ret |-> r.ret, raised |-> r.raised,
                                                failed |-> r.failed])])
    /\ UNCHANGED <<orchVars, fnVars, race, chat>>

ApNext == ApApply

ApSpec == ApInit /\ [][ApNext]_vars

---------------------------------------------------------------------------
(* Two callers on one session: update_differentiation_level and            *)
(* get_response of the manager of thread "t1", each taken statement by      *)
(* statement. The manager has no lock, so the statements of the two calls   *)
(* interleave in any order.                                                 *)

RaceThread == "t1"
RaceLevels == {10, 40, 85}

\* The Ready sessions the two callers start on: initialized only, or
\* initialized and calibrated at one level. They are the states a session is
\* in between two calls.
RaceSessions ==
    {initialize_session(EnhancedConversationManager_init(l), Alice).self : l \in RaceLevels}
    \cup {update_differentiation_level(
              initialize_session(EnhancedConversationManager_init(l), Alice).self,
              l).self : l \in RaceLevels}

RaceContexts == {NoneContext} \cup {Context(Some(h)) : h \in Histories}

UpdIdle == [pc |-> "idle", value |-> 0, calibrated_controls |-> None]
GetIdle == [pc |-> "idle", message |-> <<>>, context |-> NoneContext, messages |-> <<>>,
            calibration |-> None]

RaceInit ==
    /\ \E m \in RaceSessions : managers = [t \in {RaceThread} |-> Some(m)]
    /\ last_call = [t \in {RaceThread} |-> None]
    /\ last_result = NoOp
    /\ last_request = None
    /\ FnIdle
    /\ ac_call = None
    /\ chat = None
    /\ race = Some([upd |-> UpdIdle, get |-> GetIdle, sent |-> None, last_value |-> None])

\* update_differentiation_level, first statements: the calibrator is replaced
\* and the controller is given the level.
UpdStart(value) ==
    /\ race[1].upd.pc = "idle"
    /\ LevelInRange(value)
    /\ LET self == managers[RaceThread][1]
           s1 == [self EXCEPT
                    !.style_calibrator = StyleCalibrator_init(value),
                    !.communication_controller = cc_update_differentiation_level(@, value)]
           recalibrates == s1.session_initialized /\ Truthy(s1.user_profile)
       IN  /\ managers' = [managers EXCEPT ![RaceThread] = Some(s1)]
           /\ race' = Some([race[1] EXCEPT
                               !.upd = [pc |-> IF recalibrates THEN "message" ELSE "idle",
                                        value |-> value, calibrated_controls |-> None],
                               !.last_value = IF recalibrates THEN @ ELSE Some(value)])
    /\ UNCHANGED <<last_call, last_result, last_request, fnVars, ac_call, chat>>

\* The controls are calibrated, the instructions generated and
\* latest_calibration_message is assigned.
UpdMessage ==
    /\ race[1].upd.pc = "message"
    /\ LET self == managers[RaceThread][1]
           preferences == get_communication_preferences(self)
           cal == calibrate_structured_controls(self.style_calibrator, preferences)
           gen == generate_style_instructions(
                      self.communication_controller, cal.ret, cal.self.level)
           message == [role |-> "assistant",
                       content |-> Prefixed("[COMMUNICATION UPDATE] ", gen.ret)]
       IN  /\ managers' = [managers EXCEPT ![RaceThread] =
                              Some([self EXCEPT
                                      !.style_calibrator = cal.self,
                                      !.communication_controller = gen.self,
                                      !.latest_calibration_message = Some(message)])]
           /\ race' = Some([race[1] EXCEPT !.upd.pc = "folder",
                                            !.upd.calibrated_controls = Some(cal.ret)])
    /\ UNCHANGED <<last_call, last_result, last_request, fnVars, ac_call, chat>>

\* current_project_folder is replaced.
UpdFolder ==
    /\ race[1].upd.pc = "folder"
    /\ LET self == managers[RaceThread][1]
       IN  managers' = [managers EXCEPT ![RaceThread] =
                           Some([self EXCEPT !.current_project_folder =
                                   Some(ProjectFolder(self.user_profile[1],
                                                      self.system_prompt,
                                                      race[1].upd.calibrated_controls[1],
                                                      self.latest_calibration_message))])]
    /\ race' = Some([race[1] EXCEPT !.upd.pc = "prompt"])
    /\ UNCHANGED <<last_call, last_result, last_request, fnVars, ac_call, chat>>

\* _update_system_prompt() is called and the update returns.
UpdPrompt ==
    /\ race[1].upd.pc = "prompt"
    /\ managers' = [managers EXCEPT ![RaceThread] =
                        Some(update_system_prompt(managers[RaceThread][1]).self)]
    /\ race' = Some([race[1] EXCEPT !.upd = UpdIdle,
                                     !.last_value = Some(race[1].upd.value)])
    /\ UNCHANGED <<last_call, last_result, last_request, fnVars, ac_call, chat>>

\* get_response, up to the message array: the session is checked, the history
\* filtered, latest_calibration_message read and the new message appended.
GetAssemble(message, context) ==
    /\ race[1].get.pc = "idle"
    /\ managers[RaceThread][1].session_initialized
    /\ race' = Some([race[1] EXCEPT
                        !.get = [pc |-> "send", message |-> message, context |-> context,
                                 messages |-> assemble_messages(managers[RaceThread][1],
                                                                message, context),
                                 calibration |->
                                     managers[RaceThread][1].latest_calibration_message]])
    /\ UNCHANGED <<orchVars, fnVars, ac_call, chat>>

\* get_response, the call of the LLM client: system_prompt is read and the
\* request is sent.
GetSend ==
    /\ race[1].get.pc = "send"
    /\ last_request' = Some([thread |-> RaceThread,
                             message |-> race[1].get.message,
                             context |-> race[1].get.context,
                             messages |-> race[1].get.messages,
                             system |-> managers[RaceThread][1].system_prompt])
    /\ race' = Some([race[1] EXCEPT
                        !.get = GetIdle,
                        !.sent = Some([calibration |-> race[1].get.calibration,
                                       system |-> managers[RaceThread][1].system_prompt])])
    /\ UNCHANGED <<managers, last_call, last_result, fnVars, ac_call, chat>>

RaceNext ==
    \/ \E value \in RaceLevels : UpdStart(value)
    \/ UpdMessage
    \/ UpdFolder
    \/ UpdPrompt
    \/ \E message \in Queries, context \in RaceContexts : GetAssemble(message, context)
    \/ GetSend

RaceSpec == RaceInit /\ [][RaceNext]_vars

---------------------------------------------------------------------------
(* ConversationManager and the chat storage.                               *)
(*                                                                         *)
(* A Message is a HistoryEntry; a str is the sequence of its lines. What a *)
(* collaborator does in one call is an argument of the operator: what the  *)
(* query engine returns, what each LLM call returns or raises, and whether *)
(* the upload to the bucket succeeds.                                      *)

\* ConversationManager.system_prompt, abridged to its first sentence.
CoreSystemPrompt ==
    << "You are a professional guide helping Massachusetts citizens renew their driver's licenses." >>

\* What one call of client.messages.create does: it returns a response with
\* a text ("text"), returns a response with no content ("empty"), raises an
\* error whose text names overloaded_error ("overloaded"), or raises another
\* error ("error").
LlmOutcome(kind, text) == [kind |-> kind, text |-> text]

\* _format_context(self, query_results).
RECURSIVE format_context(_)
format_context(query_results) ==
    IF query_results = <<>> THEN EmptyStr
    ELSE LET part == << "From " \o Head(query_results).source \o ":",
                        Head(query_results).text >>
         IN  IF Len(query_results) = 1 THEN part
             ELSE part \o << "" >> \o format_context(Tail(query_results))

\* _fix_text_formatting(self, text) on the texts the modelled LLM returns:
\* the space between a dollar sign and the number is removed; no other
\* pattern matches them.
fix_text_formatting(text) ==
    CASE text = << "The fee is $ 50." >> -> << "The fee is $50." >>
      [] OTHER -> text

\* _get_enhanced_system_prompt(self, user_profile). The profile of a context
\* is None, the empty dict, a dict with every key the prompt names
\* ("complete") or a dict that lacks one of them ("partial"): indexing the
\* missing key raises.
get_enhanced_system_prompt(user_profile) ==
    IF user_profile = None \/ user_profile[1].kind = "empty"
    THEN [raised |-> FALSE, ret |-> CoreSystemPrompt]
    ELSE IF user_profile[1].kind = "partial"
    THEN [raised |-> TRUE, ret |-> <<>>]
    ELSE [raised |-> FALSE,
          ret |-> << "MANDATORY COMMUNICATION REQUIREMENTS - YOU MUST FOLLOW THESE EXACTLY:",
                     "- Name: " \o user_profile[1].full_name,
                     "CORE SYSTEM INSTRUCTIONS:" >> \o CoreSystemPrompt]

\* One call of messages.create as the client sees it.
LlmCall(model, messages, system) ==
    [model |-> model, messages |-> messages, system |-> system]

\* Mutant of cm_generate: an overloaded fallback is tried a second time.
cm_generate_retrying(messages, system, primary, fallback) ==
    LET first == LlmCall("claude-3-5-sonnet-20241022", messages, system)
        second == LlmCall("claude-3-opus-20240229", messages, system)
        calls == IF primary.kind # "overloaded" THEN <<first>>
                 ELSE IF fallback.kind # "overloaded" THEN <<first, second>>
                 ELSE <<first, second, second>>
        response == IF primary.kind = "overloaded" THEN fallback ELSE primary
    IN  [calls |-> calls, raised |-> response.kind # "text", text |-> response.text]

\* The LLM calls of ConversationManager.get_response: the primary model, the
\* fallback model when the primary raised an overloaded error, then the
\* checks of the response. What it called, whether it raised, and the text.
cm_generate(messages, system, primary, fallback) ==
    LET first == LlmCall("claude-3-5-sonnet-20241022", messages, system)
        second == LlmCall("claude-3-opus-20240229", messages, system)
    IN  IF primary.kind = "error"
        THEN [calls |-> <<first>>, raised |-> TRUE, text |-> <<>>]
        ELSE IF primary.kind = "overloaded"
        THEN [calls |-> <<first, second>>,
              raised |-> fallback.kind # "text",
              text |-> IF fallback.kind = "text" THEN fallback.text ELSE <<>>]
        ELSE [calls |-> <<first>>,
              raised |-> primary.kind # "text",
              text |-> IF primary.kind = "text" THEN primary.text ELSE <<>>]

\* The LLM calls of EnhancedConversationManager.get_response, whose check
\* for an empty response is inside the try: the error it raises names no
\* overloaded_error and is raised again.
ecm_generate(messages, system, primary, fallback) ==
    LET first == LlmCall("claude-3-sonnet-20240229", messages, system)
        second == LlmCall("claude-3-opus-20240229", messages, system)
    IN  IF primary.kind = "text"
        THEN [calls |-> <<first>>, raised |-> FALSE, text |-> primary.text]
        ELSE IF primary.kind = "overloaded"
        THEN [calls |-> <<first, second>>,
              raised |-> fallback.kind # "text",
              text |-> IF fallback.kind = "text" THEN fallback.text ELSE <<>>]
        ELSE [calls |-> <<first>>, raised |-> TRUE, text |-> <<>>]

\* A message of a stored thread.
StoredMessage(role, content, timestamp, visible) ==
    [role |-> role, content |-> content, timestamp |-> timestamp, visible |-> visible]

\* The longest content, in lines, of a message that is stored.
MaxLines == 3

\* json.dumps of a list of stored messages, as the sequence of its tokens: a
\* message is its role, the number of lines of its content, the lines, its
\* timestamp and true or false.
RECURSIVE json_dumps_messages(_)
json_dumps_messages(messages) ==
    IF messages = <<>> THEN <<>>
    ELSE LET m == Head(messages)
         IN  << m.role, ToString(Len(m.content)) >> \o m.content
                 \o << m.timestamp, IF m.visible THEN "true" ELSE "false" >>
                 \o json_dumps_messages(Tail(messages))

\* json.dumps(thread_data).
json_dumps(thread_data) ==
    << thread_data.thread_id, thread_data.timestamp >>
        \o json_dumps_messages(thread_data.messages)

RECURSIVE json_loads_messages(_)
json_loads_messages(tokens) ==
    IF tokens = <<>> THEN <<>>
    ELSE LET n == CHOOSE k \in 0..MaxLines : ToString(k) = tokens[2]
         IN  << StoredMessage(tokens[1], SubSeq(tokens, 3, 2 + n),
                              tokens[3 + n], tokens[4 + n] = "true") >>
                 \o json_loads_messages(SubSeq(tokens, 5 + n, Len(tokens)))

\* json.loads(content) of a stored thread.
json_loads(content) ==
    [thread_id |-> content[1], timestamp |-> content[2],
     messages |-> json_loads_messages(SubSeq(content, 3, Len(content)))]

\* Mutant of save_thread: the messages are appended to those the blob holds.
save_thread_appending(store, messages, thread_id, fresh_id, timestamp, upload) ==
    IF messages = <<>> \/ upload = "fail"
    THEN [store |-> store, raised |-> TRUE, ret |-> ""]
    ELSE LET id == IF thread_id = "" THEN fresh_id ELSE thread_id
             held == IF store[id] = None THEN <<>> ELSE json_loads(store[id][1]).messages
         IN  [store |-> [store EXCEPT ![id] =
                             Some(json_dumps([thread_id |-> id, timestamp |-> timestamp,
                                              messages |-> held \o messages]))],
              raised |-> FALSE, ret |-> id]

\* ChatStorage.save_thread(self, messages, thread_id): the bucket after the
\* call, whether it raised, and the id returned. fresh_id is the uuid it
\* generates when it is given no thread id; the retry decorator repeats the
\* call on a transient error, and upload is how the last attempt ended.
save_thread(store, messages, thread_id, fresh_id, timestamp, upload) ==
    IF messages = <<>>
    THEN [store |-> store, raised |-> TRUE, ret |-> ""]
    ELSE LET id == IF thread_id = "" THEN fresh_id ELSE thread_id
         IN  IF upload = "fail"
             THEN [store |-> store, raised |-> TRUE, ret |-> ""]
             ELSE [store |-> [store EXCEPT ![id] =
                                 Some(json_dumps([thread_id |-> id,
                                                  timestamp |-> timestamp,
                                                  messages |-> messages]))],
                   raised |-> FALSE, ret |-> id]

\* ChatStorage.update_thread(self, thread_id, messages).
update_thread(store, thread_id, messages, fresh_id, timestamp, upload) ==
    IF thread_id = ""
    THEN [store |-> store, raised |-> TRUE, ret |-> ""]
    ELSE save_thread(store, messages, thread_id, fresh_id, timestamp, upload)

\* ChatRetrieval.get_chat_thread(self, thread_id): ValueError on an empty id,
\* NotFound when no blob has the id.
get_chat_thread(store, thread_id) ==
    IF thread_id = "" \/ store[thread_id] = None
    THEN [raised |-> TRUE, ret |-> None]
    ELSE [raised |-> FALSE, ret |-> Some(json_loads(store[thread_id][1]))]

\* Mutant of messages_for_storage: no message is left out.
messages_for_storage_all(messages, timestamp) ==
    [i \in 1..Len(messages) |->
        StoredMessage(messages[i].role, messages[i].content, timestamp,
                      messages[i].visible)]

\* The list get_response hands to update_thread: every message of the context
\* that is not of the system role.
messages_for_storage(messages, timestamp) ==
    LET kept == SelectSeq(messages, LAMBDA msg : msg.role # "system")
    IN  [i \in 1..Len(kept) |->
            StoredMessage(kept[i].role, kept[i].content, timestamp, kept[i].visible)]

\* ConversationContext(messages, system_message_added, active_user_profile,
\* thread_id).
ConversationContext(messages, system_message_added, active_user_profile, thread_id) ==
    [messages |-> messages, system_message_added |-> system_message_added,
     active_user_profile |-> active_user_profile, thread_id |-> thread_id]

\* What the collaborators do during one call of get_response.
Collaborators(retrieval, primary, fallback, fresh_id, timestamp, upload) ==
    [retrieval |-> retrieval, primary |-> primary, fallback |-> fallback,
     fresh_id |-> fresh_id, timestamp |-> timestamp, upload |-> upload]

\* ConversationManager.get_response(self, query, context, visible): the
\* context and the bucket after the call, whether it raised, the text it
\* returned, the LLM calls it made, the list it handed to update_thread and
\* whether that call wrote it.
cm_get_response(has_storage, store, context, query, visible, env) ==
    LET failed(ctx, calls) ==
            [context |-> ctx, store |-> store, raised |-> TRUE, ret |-> None,
             calls |-> calls, payload |-> None, stored |-> FALSE]
    IN  IF query.type # "str" THEN failed(context, <<>>)
        ELSE
        LET c1 == IF context.system_message_added THEN context
                  ELSE [context EXCEPT
                          !.messages = @ \o <<HistoryEntry("system", CoreSystemPrompt, TRUE)>>,
                          !.system_message_added = TRUE]
        IN  IF env.retrieval.raised THEN failed(c1, <<>>)
            ELSE
            LET doc_context == format_context(env.retrieval.results)
                messages == create_prompt(c1.messages, query.v, doc_context)
                system == get_enhanced_system_prompt(c1.active_user_profile)
            IN  IF system.raised THEN failed(c1, <<>>)
                ELSE
                LET gen == cm_generate(messages, system.ret, env.primary, env.fallback)
                IN  IF gen.raised \/ gen.text = <<>> \/ gen.text = EmptyStr
                    THEN failed(c1, gen.calls)
                    ELSE
                    LET generated_response == fix_text_formatting(gen.text)
                        c2 == [c1 EXCEPT !.messages =
                                  @ \o << HistoryEntry("user", query.v, visible),
                                          HistoryEntry("assistant", generated_response, TRUE) >>]
                        payload == messages_for_storage(c2.messages, env.timestamp)
                        upd == update_thread(store, c2.thread_id, payload,
                                             env.fresh_id, env.timestamp, env.upload)
                    IN  [context |-> c2,
                         store |-> IF has_storage THEN upd.store ELSE store,
                         raised |-> FALSE,
                         ret |-> Some(generated_response),
                         calls |-> gen.calls,
                         payload |-> IF has_storage THEN Some(payload) ELSE None,
                         stored |-> has_storage /\ ~upd.raised]

\* Mutant of set_active_user: the messages of the context are kept.
set_active_user_keeping_messages(context, user_profile) ==
    [context EXCEPT !.active_user_profile = user_profile,
                    !.system_message_added = FALSE]

\* SessionManager.set_active_user(st, user_profile) on the context.
set_active_user(context, user_profile) ==
    [context EXCEPT !.active_user_profile = user_profile,
                    !.messages = <<>>,
                    !.system_message_added = FALSE]

---------------------------------------------------------------------------
(* One conversation: a ConversationManager with its context and the bucket *)
(* of the chat storage, the storage and retrieval calls made on the bucket  *)
(* directly, and get_response of an EnhancedConversationManager with the    *)
(* LLM calls it makes.                                                      *)

\* A turn is taken on a context of at most this many messages.
MaxHistory == 3

ChatThread == "th1"
FreshIds == {"new1"}
StoreIds == {ChatThread} \cup FreshIds
Timestamps == {"2025-01-01T00:00:00Z", "2025-01-01T00:00:05Z"}

ChatProfile(kind, full_name) == [kind |-> kind, full_name |-> full_name]
ChatProfiles ==
    {None, Some(ChatProfile("empty", "")), Some(ChatProfile("complete", "Alice")),
     Some(ChatProfile("partial", "Bob"))}

ChatQueries == {PyStr(<<"Hello?">>), PyStr(<<"How do I renew?">>), PyInt}

LlmOutcomes ==
    {LlmOutcome("text", <<"The fee is $ 50.">>),
     LlmOutcome("empty", <<>>), LlmOutcome("overloaded", <<>>), LlmOutcome("error", <<>>)}

Retrievals ==
    {[raised |-> TRUE, results |-> <<>>],
     [raised |-> FALSE, results |-> <<[source |-> "rmv.pdf", text |-> "Renew online."]>>]}

StoragePayloads ==
    { <<>>,
      << StoredMessage("user", <<"Hello, I need help with license renewal">>,
                       "2025-01-01T00:00:00Z", TRUE) >>,
      << StoredMessage("user", <<"Hello, I need help with license renewal">>,
                       "2025-01-01T00:00:00Z", TRUE),
         StoredMessage("assistant", <<"I can help you with that.">>,
                       "2025-01-01T00:00:05Z", TRUE) >> }

\* The managers get_response is called on: one never initialized, one Ready.
EcmSessions ==
    {EnhancedConversationManager_init(40),
     update_differentiation_level(
         initialize_session(EnhancedConversationManager_init(40), Alice).self, 40).self}

NoTurn ==
    [op |-> "", raised |-> FALSE, ret |-> None, calls |-> <<>>, payload |-> None,
     stored |-> FALSE, arg |-> None]

\* SessionManager.initialize_session: an empty context with no active
\* profile; the bucket is empty; the manager has a chat storage or has none.
ChatInit ==
    /\ OrchInit(Threads)
    /\ FnIdle
    /\ ac_call = None
    /\ race = None
    /\ \E has_storage \in BOOLEAN :
          chat = Some([has_storage |-> has_storage,
                       context |-> ConversationContext(<<>>, FALSE, None, ChatThread),
                       store |-> [id \in StoreIds |-> None],
                       turn |-> NoTurn])

ChatFrame == UNCHANGED <<orchVars, fnVars, ac_call, race>>

\* conversation_manager.get_response(query, context, visible).
CmGetResponse(query, visible, env) ==
    /\ Len(chat[1].context.messages) <= MaxHistory
    /\ LET r == cm_get_response(chat[1].has_storage, chat[1].store, chat[1].context,
                                query, visible, env)
       IN  chat' = Some([chat[1] EXCEPT
                            !.context = r.context,
                            !.store = r.store,
                            !.turn = [op |-> "get_response", raised |-> r.raised,
                                      ret |-> r.ret, calls |-> r.calls,
                                      payload |-> r.payload, stored |-> r.stored,
                                      arg |-> Some([query |-> query, visible |-> visible,
                                                    env |-> env])]])
    /\ ChatFrame

\* SessionManager.set_active_user(st, user_profile).
SetActiveUser(user_profile) ==
    /\ chat' = Some([chat[1] EXCEPT
                        !.context = set_active_user(@, user_profile),
                        !.turn = [NoTurn EXCEPT !.op = "set_active_user"]])
    /\ ChatFrame

\* chat_storage.save_thread(messages, thread_id).
SaveThread(messages, thread_id, fresh_id, timestamp, upload) ==
    /\ LET r == save_thread(chat[1].store, messages, thread_id, fresh_id, timestamp, upload)
       IN  chat' = Some([chat[1] EXCEPT
                            !.store = r.store,
                            !.turn = [NoTurn EXCEPT
                                        !.op = "save_thread", !.raised = r.raised,
                                        !.ret = IF r.raised THEN None ELSE Some(r.ret),
                                        !.arg = Some([thread_id |-> thread_id,
                                                      messages |-> messages])]])
    /\ ChatFrame

\* chat_storage.update_thread(thread_id, messages).
UpdateThread(thread_id, messages, fresh_id, timestamp, upload) ==
    /\ LET r == update_thread(chat[1].store, thread_id, messages, fresh_id, timestamp,
                              upload)
       IN  chat' = Some([chat[1] EXCEPT
                            !.store = r.store,
                            !.turn = [NoTurn EXCEPT
                                        !.op = "update_thread", !.raised = r.raised,
                                        !.arg = Some([thread_id |-> thread_id,
                                                      messages |-> messages])]])
    /\ ChatFrame

\* chat_retrieval.get_chat_thread(thread_id).
GetChatThread(thread_id) ==
    /\ LET r == get_chat_thread(chat[1].store, thread_id)
       IN  chat' = Some([chat[1] EXCEPT
                            !.turn = [NoTurn EXCEPT
                                        !.op = "get_chat_thread", !.raised = r.raised,
                                        !.ret = r.ret,
                                        !.arg = Some([thread_id |-> thread_id,
                                                      messages |-> <<>>])]])
    /\ ChatFrame

\* get_response(message, None) of an EnhancedConversationManager, with the
\* LLM calls it makes.
EcmGetResponse(self, message, primary, fallback) ==
    /\ LET r == get_response(self, message, NoneContext)
           gen == IF r.raised
                  THEN [calls |-> <<>>, raised |-> TRUE, text |-> <<>>]
                  ELSE ecm_generate(r.request[1].messages, r.request[1].system,
                                    primary, fallback)
       IN  chat' = Some([chat[1] EXCEPT
                            !.turn = [NoTurn EXCEPT
                                        !.op = "ecm_get_response",
                                        !.raised = gen.raised,
                                        !.ret = IF gen.raised THEN None ELSE Some(gen.text),
                                        !.calls = gen.calls,
                                        !.arg = Some([ready |-> ~r.raised,
                                                      primary |-> primary,
                                                      fallback |-> fallback])]])
    /\ ChatFrame

\* The fallback outcome is drawn only when the primary call is overloaded:
\* no fallback call is made otherwise.
FallbacksOf(primary) ==
    IF primary.kind = "overloaded" THEN LlmOutcomes ELSE {LlmOutcome("error", <<>>)}

ChatNext ==
    \/ \E query \in ChatQueries, retrieval \in Retrievals, primary \in LlmOutcomes,
          fresh_id \in FreshIds, timestamp \in {"2025-01-01T00:00:00Z"},
          upload \in (IF chat[1].has_storage THEN {"ok", "fail"} ELSE {"ok"}) :
          \E fallback \in FallbacksOf(primary) :
             CmGetResponse(query, query # PyStr(<<"Hello?">>),
                           Collaborators(retrieval, primary, fallback, fresh_id,
                                         timestamp, upload))
    \/ \E user_profile \in ChatProfiles : SetActiveUser(user_profile)
    \/ \E self \in EcmSessions, message \in Queries, primary \in LlmOutcomes :
          \E fallback \in FallbacksOf(primary) :
             EcmGetResponse(self, message, primary, fallback)

ChatSpec == ChatInit /\ [][ChatNext]_vars

\* The storage and retrieval calls alone, on a bucket that is empty at first.
StoreNext ==
    \/ \E messages \in StoragePayloads, thread_id \in {"", ChatThread},
          fresh_id \in FreshIds, timestamp \in Timestamps, upload \in {"ok", "fail"} :
          SaveThread(messages, thread_id, fresh_id, timestamp, upload)
    \/ \E messages \in StoragePayloads, thread_id \in {"", ChatThread},
          fresh_id \in FreshIds, timestamp \in Timestamps, upload \in {"ok", "fail"} :
          UpdateThread(thread_id, messages, fresh_id, timestamp, upload)
    \/ \E thread_id \in StoreIds \cup {""} : GetChatThread(thread_id)

StoreSpec == ChatInit /\ [][StoreNext]_vars

---------------------------------------------------------------------------
(* Properties.                                                             *)

HasLine(text, line) == \E i \in 1..Len(text) : text[i] = line

Abs(n) == IF n < 0 THEN -n ELSE n

\* The three numeric controls of a controls dict.
Numeric(controls) ==
    [interaction_style |-> controls.interaction_style,
     detail_level |-> controls.detail_level,
     rapport_level |-> controls.rapport_level]

Triple(a, b, c) ==
    [interaction_style |-> Num(a), detail_level |-> Num(b), rapport_level |-> Num(c)]

\* C1: calibrate_structured_controls is deterministic. Whatever the managers
\* of the two threads did before, and in whichever order: two calls made with
\* the same level and the same preferences returned the same controls, on one
\* calibrator (the call of an operation and the call _update_system_prompt
\* repeats right after it) and on two.
C1_Deterministic ==
    /\ \A t \in DOMAIN last_call :
          last_call[t] # None /\ last_call[t][1].again # None
              => last_call[t][1].again[1] = last_call[t][1].ret
    /\ \A t, u \in DOMAIN last_call :
          /\ last_call[t] # None
          /\ last_call[u] # None
          /\ last_call[t][1].level = last_call[u][1].level
          /\ last_call[t][1].preferences = last_call[u][1].preferences
          => last_call[t][1].ret = last_call[u][1].ret

\* Two managers calibrated the same inputs after different histories: one in
\* an update that followed earlier calibrations, one in its first call.
C1_Witness ==
    /\ last_call["t1"] # None
    /\ last_call["t2"] # None
    /\ last_call["t1"][1].level = last_call["t2"][1].level
    /\ last_call["t1"][1].preferences = last_call["t2"][1].preferences
    /\ last_call["t1"][1].again # None
    /\ managers["t1"][1].latest_calibration_message # None
    /\ managers["t2"][1].latest_calibration_message = None

\* communication_preferences is a dict that gives each control a number in
\* PrefMin..PrefMax, and neither other sub-record is None.
InBandPrefs(prefs) ==
    /\ prefs.type = "dict"
    /\ prefs.name_preference.type # "none"
    /\ prefs.demographics.type # "none"
    /\ prefs.communication_preferences.type = "dict"
    /\ \A key \in ControlKeys :
          /\ prefs.communication_preferences[key] # None
          /\ IsNum(prefs.communication_preferences[key][1])
          /\ prefs.communication_preferences[key][1].n \in 1..5

\* C2: at level 100, for raw communication_preferences with each control in
\* 1..5, the calibrated interaction_style, detail_level and rapport_level are
\* the raw values.
C2_StrictEqualsRaw ==
    fn_result # None /\ fn_result[1].level = 100 /\ InBandPrefs(fn_prefs)
        => \A key \in ControlKeys :
              fn_result[1].controls[key] = fn_prefs.communication_preferences[key][1]

C2_Witness ==
    /\ fn_result # None
    /\ fn_result[1].level = 100
    /\ fn_prefs.communication_preferences = SampleCP
    /\ Numeric(fn_result[1].controls) = Triple(1, 1, 5)

\* A Ready session of the profile {1,1,5} whose level is 0 or 10.
LowLevelAlice(t) ==
    /\ managers[t] # None
    /\ managers[t][1].session_initialized
    /\ managers[t][1].user_profile = Some(Alice)
    /\ managers[t][1].style_calibrator.level \in {0, 10}
    /\ managers[t][1].current_project_folder # None

\* The calibration message of the session's current project folder is the one
\* the manager holds: the last update made both.
FolderMessageCurrent(t) ==
    /\ managers[t][1].latest_calibration_message # None
    /\ managers[t][1].current_project_folder[1].latest_calibration_message
           = managers[t][1].latest_calibration_message

\* C3 as claimed: at level 10 (and 0) the calibrated controls of the profile
\* {1,1,5} are the system defaults {3,3,3}, and the instruction text presents
\* all three controls as balanced.
C3_DefaultsAtLowLevel ==
    \A t \in DOMAIN managers :
        LowLevelAlice(t)
            => /\ Numeric(managers[t][1].current_project_folder[1].calibrated_controls)
                      = Triple(3, 3, 3)
               /\ FolderMessageCurrent(t)
                      => LET text == managers[t][1].latest_calibration_message[1].content
                         IN  /\ HasLine(text, "* Interaction Style: 3")
                             /\ HasLine(text, "* Detail Level: 3")
                             /\ HasLine(text, "* Rapport Level: 3")
                             /\ HasLine(text, "* Maintain balanced detail level")

\* C3, amended: at level 10 (and 0) the calibrated controls of the profile
\* {1,1,5} are its raw preferences {1,1,5}, and the instruction text of the
\* calibration message restates 1, 1 and 5 with the methodical, comprehensive
\* and professional guidance, none of the balanced guidance, and the
\* directives of the minimal band.
C3_RawAtLowLevel ==
    \A t \in DOMAIN managers :
        LowLevelAlice(t)
            => /\ Numeric(managers[t][1].current_project_folder[1].calibrated_controls)
                      = Triple(1, 1, 5)
               /\ FolderMessageCurrent(t)
                      => LET text == managers[t][1].latest_calibration_message[1].content
                         IN  /\ HasLine(text, "* Interaction Style: 1")
                             /\ HasLine(text, "* Detail Level: 1")
                             /\ HasLine(text, "* Rapport Level: 5")
                             /\ HasLine(text, "* Provide methodical, step-by-step guidance")
                             /\ HasLine(text, "* Provide comprehensive explanations")
                             /\ HasLine(text, "* Keep tone strictly professional")
                             /\ ~HasLine(text, "* Maintain balanced detail level")
                             /\ ~HasLine(text, "* Balance professional and personal elements")
                             /\ ~HasLine(text,
                                    "* Balance step-by-step guidance with efficient delivery")
                             /\ HasLine(text, "* Reference context only for essential details")

\* The session of the profile {1,1,5} was recalibrated at level 10.
C3_Witness ==
    /\ LowLevelAlice("t1")
    /\ FolderMessageCurrent("t1")
    /\ managers["t1"][1].style_calibrator.level = 10
    /\ last_result.op = "update_differentiation_level"

\* C4: for fixed raw preferences and levels L1 <= L2, no numeric control is
\* nearer to the system default 3 at L2 than at L1.
C4_Monotone ==
    /\ fn_prev # None
    /\ fn_result # None
    /\ fn_prev[1].level <= fn_result[1].level
    /\ \A key \in ControlKeys :
          IsNum(fn_prev[1].controls[key]) /\ IsNum(fn_result[1].controls[key])
    => \A key \in ControlKeys :
          Abs(fn_prev[1].controls[key].n - 3) <= Abs(fn_result[1].controls[key].n - 3)

\* The same preferences calibrated at a level of the minimal band and then at
\* one of the strict band, a control away from the default.
C4_Witness ==
    /\ fn_prev # None
    /\ fn_result # None
    /\ fn_prev[1].level <= 30
    /\ fn_result[1].level > 70
    /\ IsNum(fn_result[1].controls.interaction_style)
    /\ fn_result[1].controls.interaction_style.n = 1
    /\ fn_prev[1].controls.interaction_style = fn_result[1].controls.interaction_style

\* The band a level belongs to: minimal up to 30, moderate up to 70, strict
\* above.
BandOf(level) ==
    IF level <= 30 THEN "minimal" ELSE IF level <= 70 THEN "moderate" ELSE "strict"

Bands == {"minimal", "moderate", "strict"}

\* The first context-usage directive of the controller, by band.
ControllerDirective(band) ==
    CASE band = "minimal" -> "* Reference context only for essential details"
      [] band = "moderate" -> "* Incorporate context naturally"
      [] band = "strict" -> "* Fully utilize relevant context"

\* The first line of the calibrator's application guidance, by band.
CalibratorGuidance(band) ==
    CASE band = "minimal" -> "* Default to standardized responses and procedures"
      [] band = "moderate" -> "* Balance standard procedures with preferences"
      [] band = "strict" -> "* Make user preferences your primary guide"

\* The adherence sentence of the calibrator, by band.
AdherenceLine(band, level) ==
    "Apply these preferences with " \o band \o " adherence ("
        \o ToString(level) \o "% differentiation level)."

\* The application-level line of the case-file display, by band.
DisplayLine(band, level) ==
    "Application Level: "
        \o (CASE band = "minimal" -> "Minimal"
              [] band = "moderate" -> "Moderate"
              [] band = "strict" -> "Strict")
        \o " (" \o ToString(level) \o ".0)"

\* C5: every place that derives a band from the level L selects minimal iff
\* L <= 30, moderate iff 30 < L <= 70, strict iff L > 70: the context-usage
\* directives of the controller, the adherence sentence and the application
\* guidance of the calibrator, and the case-file display; so all of them agree
\* on the band of one level.
C5_BandsAgree ==
    fn_result # None =>
        LET level == fn_result[1].level
            style == fn_result[1].style
            behavioral == fn_result[1].behavioral
            display == fn_result[1].display
        IN  \A band \in Bands :
              /\ style # EmptyStr
                    => (HasLine(style, ControllerDirective(band)) <=> band = BandOf(level))
              /\ ~behavioral.raised
                    => /\ HasLine(behavioral.text, CalibratorGuidance(band))
                              <=> band = BandOf(level)
                       /\ HasLine(behavioral.text, AdherenceLine(band, level))
                              <=> band = BandOf(level)
              /\ fn_calibrator.last # None
                    => (HasLine(display, DisplayLine(band, level)) <=> band = BandOf(level))

\* Level 31, just above the minimal band: all four places say moderate.
C5_Witness ==
    /\ fn_result # None
    /\ fn_result[1].level = 31
    /\ HasLine(fn_result[1].style, "* Incorporate context naturally")
    /\ HasLine(fn_result[1].behavioral.text, "* Balance standard procedures with preferences")
    /\ HasLine(fn_result[1].behavioral.text,
               "Apply these preferences with moderate adherence (31% differentiation level).")
    /\ HasLine(fn_result[1].display, "Application Level: Moderate (31.0)")

\* The source of a field is absent: no sub-record, or no such key in it.
AbsentEntry(subrecord, key) == subrecord.type = "absent" \/ subrecord[key] = None

\* C6: calibrate_structured_controls returns a record of all eight fields, and
\* every field whose source is absent from the input has its system default:
\* 3, 3, 3, formal, false, "", adult, none.
C6_CompleteWithDefaults ==
    fn_result # None =>
        LET controls == fn_result[1].controls
            cp == fn_prefs.communication_preferences
            np == fn_prefs.name_preference
            dm == fn_prefs.demographics
        IN  /\ DOMAIN controls =
                   {"interaction_style", "detail_level", "rapport_level", "formality_level",
                    "title_required", "professional_title", "age_category",
                    "professional_status"}
            /\ \A key \in ControlKeys : AbsentEntry(cp, key) => controls[key] = Num(3)
            /\ AbsentEntry(np, "formality_level") => controls.formality_level = "formal"
            /\ AbsentEntry(np, "title_required") => controls.title_required = FALSE
            /\ AbsentEntry(np, "professional_title") => controls.professional_title = ""
            /\ AbsentEntry(dm, "age_category") => controls.age_category = "adult"
            /\ AbsentEntry(dm, "professional_status") => controls.professional_status = "none"

\* One control given and the rest of the input absent: the given value is kept
\* and everything else is a default.
C6_Witness ==
    /\ fn_result # None
    /\ fn_prefs = UserPreferences(CommPrefs("dict", Some(Num(5)), None, None),
                                  AbsentNP, AbsentDM)
    /\ fn_result[1].controls =
           [interaction_style |-> Num(5), detail_level |-> Num(3), rapport_level |-> Num(3),
            formality_level |-> "formal", title_required |-> FALSE,
            professional_title |-> "", age_category |-> "adult",
            professional_status |-> "none"]

\* communication_preferences has a wrong type, or gives a control a value that
\* is no number or lies outside 1..5.
MalformedCommPrefs(cp) ==
    \/ cp.type \in {"none", "str"}
    \/ /\ cp.type = "dict"
       /\ \E key \in ControlKeys :
             cp[key] # None /\ (~IsNum(cp[key][1]) \/ cp[key][1].n \notin 1..5)

\* C7: malformed raw preferences never reach a prompt. The controls calibrated
\* from malformed communication_preferences are the full system defaults, and
\* every calibrated control a session holds is a number in 1..5.
C7_MalformedFallsBack ==
    \A t \in DOMAIN managers :
        managers[t] # None /\ managers[t][1].current_project_folder # None
            => LET folder == managers[t][1].current_project_folder[1]
               IN  /\ MalformedCommPrefs(folder.user_profile.communication_preferences)
                         => folder.calibrated_controls =
                                [interaction_style |-> Num(3), detail_level |-> Num(3),
                                 rapport_level |-> Num(3), formality_level |-> "formal",
                                 title_required |-> FALSE, professional_title |-> "",
                                 age_category |-> "adult", professional_status |-> "none"]
                   /\ \A key \in ControlKeys :
                         /\ IsNum(folder.calibrated_controls[key])
                         /\ folder.calibrated_controls[key].n \in 1..5

\* The preferences are a dict and none of its sub-records is None.
WellTyped(prefs) ==
    /\ prefs.type = "dict"
    /\ prefs.communication_preferences.type # "none"
    /\ prefs.name_preference.type # "none"
    /\ prefs.demographics.type # "none"

\* The raw value of a key, or the default where the input has none.
RawOr(entry, default) == IF entry = None THEN default ELSE entry[1]

Calibration(m) ==
    [calibrator_level |-> m.style_calibrator.level,
     controller_level |-> m.communication_controller.level,
     calibrated_controls |->
         IF m.current_project_folder = None THEN None
         ELSE Some(m.current_project_folder[1].calibrated_controls),
     system_prompt |-> m.system_prompt,
     latest_calibration_message |-> m.latest_calibration_message]

\* C9: the level a manager holds is in [0,100] in every reachable state.
\* Constructing or updating with a value outside [0,100] raises, a rejected
\* construction makes no manager, and a rejected update_differentiation_level
\* leaves the level, the calibrated controls, the system_prompt and the
\* latest_calibration_message as they were.
C9_LevelInRange ==
    [][ /\ \A t \in DOMAIN managers :
              managers'[t] # None
                  => /\ managers'[t][1].style_calibrator.level \in 0..100
                     /\ managers'[t][1].communication_controller.level \in 0..100
        /\ last_result'.op \in {"create", "update_differentiation_level"}
              /\ last_result'.value \notin 0..100
              => /\ last_result'.raised
                 /\ \A t \in DOMAIN managers :
                       /\ managers[t] = None => managers'[t] = None
                       /\ managers[t] # None
                             => /\ managers'[t] # None
                                /\ Calibration(managers'[t][1]) = Calibration(managers[t][1])
      ]_vars

\* A recalibrated session has just rejected an update with 101.
C9_Witness ==
    /\ last_result.op = "update_differentiation_level"
    /\ last_result.value = 101
    /\ last_result.raised
    /\ managers["t1"] # None
    /\ managers["t1"][1].session_initialized
    /\ managers["t1"][1].latest_calibration_message # None
    /\ managers["t1"][1].style_calibrator.level = 40

\* The labels of the three controls, by value: low up to 2, high from 4,
\* balanced at 3.
LabelOf(key, n) ==
    CASE key = "interaction_style" ->
             (IF n <= 2 THEN "methodical" ELSE IF n >= 4 THEN "efficient" ELSE "balanced")
      [] key = "detail_level" ->
             (IF n <= 2 THEN "maximum" ELSE IF n >= 4 THEN "minimal" ELSE "balanced")
      [] key = "rapport_level" ->
             (IF n <= 2 THEN "personal" ELSE IF n >= 4 THEN "professional" ELSE "balanced")

\* The restatement of a control, bare and with its label.
Restated(title, v) == "* " \o title \o ": " \o ToString(v.n)
RestatedWithLabel(title, key, v) ==
    Restated(title, v) \o " (" \o LabelOf(key, v.n) \o ")"

\* Lines 2 to 4 of the text restate the three controls in the fixed order,
\* each with its label.
LabelledInOrder(text, controls) ==
    /\ Len(text) >= 4
    /\ text[2] = RestatedWithLabel("Interaction Style", "interaction_style",
                                   controls.interaction_style)
    /\ text[3] = RestatedWithLabel("Detail Level", "detail_level", controls.detail_level)
    /\ text[4] = RestatedWithLabel("Rapport Level", "rapport_level", controls.rapport_level)

\* Every line of the sequence lines occurs in the text after position 4.
AfterRestatement(text, lines) ==
    \A j \in 1..Len(lines) : \E i \in 5..Len(text) : text[i] = lines[j]

AllNumeric(controls) == \A key \in ControlKeys : IsNum(controls[key])

ControllerGuidance(key, n) ==
    CASE key = "interaction_style" ->
             (IF n <= 2 THEN "* Provide methodical, step-by-step guidance"
              ELSE IF n >= 4 THEN "* Be efficient and direct"
              ELSE "* Balance step-by-step guidance with efficient delivery")
      [] key = "detail_level" ->
             (IF n <= 2 THEN "* Provide comprehensive explanations"
              ELSE IF n >= 4 THEN "* Keep details minimal and focused"
              ELSE "* Maintain balanced detail level")
      [] key = "rapport_level" ->
             (IF n <= 2 THEN "* Maintain a warm, personal tone"
              ELSE IF n >= 4 THEN "* Keep tone strictly professional"
              ELSE "* Balance professional and personal elements")

FormalityLines == {"* Maintain " \o f \o " tone" : f \in {"formal", "semiformal", "informal"}}
TitleLines == {"* Use title: " \o t : t \in {"Dr."}}

HasFormalityLine(text) == \E line \in FormalityLines : HasLine(text, line)
HasTitleLine(text) == \E line \in TitleLines : HasLine(text, line)

\* The directives a text should carry at a level, for given controls.
DirectivesAsClaimed(text, level, controls) ==
    /\ level <= 50 => ~HasFormalityLine(text) /\ ~HasTitleLine(text)
    /\ level > 50 =>
          /\ HasLine(text, "* Maintain " \o controls.formality_level \o " tone")
          /\ HasTitleLine(text)
                 <=> (controls.title_required = TRUE /\ controls.professional_title # "")

\* C11: the title and formality directives are in the instruction
\* text exactly when level > 50, the title directive iff title_required and a
\* non-empty professional_title, in the text of StyleCalibrator and in the
\* text of CommunicationController.generate_style_instructions(controls,
\* level), which is the content of latest_calibration_message.
C11_DirectivesInBothTexts ==
    fn_result # None /\ AllNumeric(fn_result[1].controls) =>
        /\ DirectivesAsClaimed(fn_result[1].behavioral.text, fn_result[1].level,
                               fn_result[1].controls)
        /\ DirectivesAsClaimed(fn_result[1].style, fn_result[1].level, fn_result[1].controls)


\* The controls carry neither a name_preference nor a demographics entry.
ApPlainControls(controls) ==
    /\ controls.type = "dict"
    /\ controls.name_preference.type = "absent"
    /\ controls.demographics.type = "absent"

\* The three conditions under which the name is given its title.
ApTitled(controls) ==
    /\ controls.type = "dict"
    /\ controls.name_preference.type = "dict"
    /\ LET np == controls.name_preference
       IN  /\ np.preferred_name # None /\ np.preferred_name[1].type = "str"
           /\ np.preferred_name[1].v # <<>>
           /\ np.title_required = Some(PyBool(TRUE))
           /\ np.professional_title # None /\ np.professional_title[1].type = "str"
           /\ np.professional_title[1].v # <<>>

\* Where name occurs in text.
Occurrences(text, name) ==
    {i \in 1..(Len(text) - Len(name) + 1) : SubSeq(text, i, i + Len(name) - 1) = name}

\* C12: apply_communication_controls never raises; it returns the response
\* unchanged when the controls carry no name_preference and no demographics,
\* and when a step inside it fails; the text differs from the response only
\* when preferred_name is non-empty, title_required is true and
\* professional_title is non-empty, and then every occurrence of the name in
\* the returned text follows the title (or overlaps an earlier occurrence).
C12_IdentityUnlessTitled ==
    (ac_call # None /\ ac_call[1].result # None) =>
        LET response == ac_call[1].response
            controls == ac_call[1].controls
            r == ac_call[1].result[1]
        IN  /\ ~r.raised
            /\ ApPlainControls(controls) => r.ret = response
            /\ r.failed => r.ret = response
            /\ r.ret # response => ApTitled(controls)
            /\ (ApTitled(controls) /\ ~r.failed) =>
                  LET name == controls.name_preference.preferred_name[1].v
                      prefix == controls.name_preference.professional_title[1].v \o <<" ">>
                  IN  /\ Occurrences(response, name) # {} =>
                             LET first == CHOOSE i \in Occurrences(r.ret, name) :
                                              \A j \in Occurrences(r.ret, name) : i <= j
                             IN  /\ Occurrences(r.ret, name) # {}
                                 /\ first > Len(prefix)
                                 /\ SubSeq(r.ret, first - Len(prefix), first - 1) = prefix
                      /\ Len(r.ret) >= Len(response)
                      /\ \A i \in Occurrences(r.ret, name) :
                             \/ i > Len(prefix)
                                   /\ SubSeq(r.ret, i - Len(prefix), i - 1) = prefix
                             \/ \E j \in Occurrences(r.ret, name) :
                                   /\ j < i /\ i < j + Len(name)

\* The session of thread t is initialized in the given managers.
Ready(mgrs, t) == mgrs[t] # None /\ mgrs[t][1].session_initialized

\* C13: a session becomes initialized only in a step of initialize_session
\* that completes, and then it holds a profile that is not None;
\* initialize_session(None) raises and leaves the manager, and with it
\* session_initialized, as it was; get_response on a session that is not
\* initialized raises and no request is assembled or sent.
C13_ReadyOnlyByInit ==
    [][\A t \in Threads :
          /\ (~Ready(managers, t) /\ Ready(managers', t)) =>
                 /\ last_result' = [thread |-> t, op |-> "initialize_session",
                                    value |-> 0, raised |-> FALSE]
                 /\ managers'[t][1].user_profile # None
                 /\ managers'[t][1].user_profile[1].type # "none"
          /\ (managers[t] # None /\ InitializeSession(t, NoneProfile)) =>
                 /\ last_result'.raised
                 /\ managers' = managers
          /\ (managers[t] # None /\ ~Ready(managers, t)
                 /\ last_result'.op = "get_response" /\ last_result'.thread = t) =>
                 /\ last_result'.raised
                 /\ last_request' = None
                 /\ managers' = managers
      ]_vars

\* A manager whose first initialize_session failed after it had stored the
\* profile, and whose get_response was then rejected.
C13_Witness ==
    \E t \in Threads :
        /\ managers[t] # None
        /\ ~managers[t][1].session_initialized
        /\ managers[t][1].user_profile # None
        /\ last_result = [thread |-> t, op |-> "get_response", value |-> 0, raised |-> TRUE]
        /\ last_request = None

\* The session a new manager of the given level holds once it is initialized
\* with the profile and its level is set to that level again: what one
\* calibration at that level makes, with no earlier calibration behind it.
CalibratedAfresh(profile, level) ==
    update_differentiation_level(
        initialize_session(EnhancedConversationManager_init(level), profile).self,
        level).self

\* The lines of text appear in lines, one after another.
HasSection(lines, text) ==
    \E i \in 0..(Len(lines) - Len(text)) : SubSeq(lines, i + 1, i + Len(text)) = text

\* How often the message is in the array.
CountOf(messages, message) ==
    Cardinality({i \in 1..Len(messages) : messages[i] = message})

C15_Transactional ==
    [][\A t \in Threads :
          (/\ managers[t] # None
           /\ last_result'.op = "update_differentiation_level"
           /\ last_result'.thread = t
           /\ last_result'.raised) =>
             Calibration(managers'[t][1]) = Calibration(managers[t][1])
      ]_vars

\* C16: setting the level to the value the manager already has triggers no
\* recalibration: the calibrated controls, the system_prompt and the
\* latest_calibration_message stay as they were.
C16_NoOpGuard ==
    [][\A t \in Threads :
          (/\ managers[t] # None
           /\ last_result'.op = "update_differentiation_level"
           /\ last_result'.thread = t
           /\ last_result'.value = managers[t][1].style_calibrator.level) =>
             Calibration(managers'[t][1]) = Calibration(managers[t][1])
      ]_vars

\* C17: with two managers for two thread ids, a call of initialize_session,
\* update_differentiation_level or get_response on one of them (and the
\* construction of one) leaves the other as it was: its level, calibrated
\* controls, system_prompt and latest_calibration_message.
C17_SessionIsolation ==
    [][\A u \in DOMAIN managers :
          u # last_result'.thread =>
             /\ managers[u] = None <=> managers'[u] = None
             /\ managers[u] # None =>
                    Calibration(managers'[u][1]) = Calibration(managers[u][1])
      ]_vars

\* Two Ready sessions at different levels, each with a calibration message of
\* its own, the last call an update of one of them.
C17_Witness ==
    /\ DOMAIN managers = PairThreads
    /\ \A t \in PairThreads : Ready(managers, t)
                                /\ managers[t][1].latest_calibration_message # None
    /\ managers["t1"][1].style_calibrator.level = 85
    /\ managers["t2"][1].style_calibrator.level = 10
    /\ managers["t1"][1].latest_calibration_message
           # managers["t2"][1].latest_calibration_message
    /\ managers["t1"][1].system_prompt # managers["t2"][1].system_prompt
    /\ last_result = [thread |-> "t1", op |-> "update_differentiation_level",
                      value |-> 85, raised |-> FALSE]

\* C18: a request get_response sends while update_differentiation_level runs
\* on the same session carries a calibration message and a system_prompt of
\* one calibration: the pair a session holds between two calls, never the
\* message of one with the prompt of another. Once the update has returned,
\* the session holds what the calibration at the last level written makes.
C18_NoHybridRequest ==
    race # None =>
        /\ race[1].sent # None =>
               \E m \in RaceSessions :
                   /\ race[1].sent[1].calibration = m.latest_calibration_message
                   /\ race[1].sent[1].system = m.system_prompt
        /\ (race[1].upd.pc = "idle" /\ race[1].last_value # None) =>
               LET m == managers[RaceThread][1]
                   afresh == CalibratedAfresh(m.user_profile[1], race[1].last_value[1])
               IN  /\ m.latest_calibration_message = afresh.latest_calibration_message
                   /\ m.system_prompt = afresh.system_prompt
                   /\ m.current_project_folder[1].calibrated_controls
                          = afresh.current_project_folder[1].calibrated_controls

\* The entries of a history whose role is user or assistant, in their order,
\* as the role and content sent.
RECURSIVE RestrictedToTurns(_)
RestrictedToTurns(history) ==
    IF history = <<>> THEN <<>>
    ELSE LET rest == RestrictedToTurns(Tail(history))
         IN  IF Head(history).role \in {"user", "assistant"}
             THEN <<OutMessage(Head(history).role, Head(history).content)>> \o rest
             ELSE rest

\* The history a context carries.
HistoryOf(context) ==
    IF context.type = "dict" /\ context.previous_messages # None
    THEN context.previous_messages[1]
    ELSE <<>>

\* C19: the message list get_response sends is the history restricted to the
\* user and assistant roles, in its order, then the latest_calibration_message
\* if there is one and the last entry of that history is not equal to it, then
\* the new user message: the new user message is the last element, no entry
\* has the system role, and the call adds the calibration message at most
\* once.
C19_OutboundOrder ==
    last_request # None =>
        LET q == last_request[1]
            m == managers[q.thread][1]
            turns == RestrictedToTurns(HistoryOf(q.context))
            n == Len(q.messages)
            added == m.latest_calibration_message # None
                     /\ (turns = <<>> \/ turns[Len(turns)] # m.latest_calibration_message[1])
        IN  /\ n >= 1
            /\ q.messages[n] = OutMessage("user", q.message)
            /\ \A i \in 1..n : q.messages[i].role # "system"
            /\ SubSeq(q.messages, 1, Len(turns)) = turns
            /\ n = Len(turns) + (IF added THEN 2 ELSE 1)
            /\ added => q.messages[n - 1] = m.latest_calibration_message[1]
            /\ m.latest_calibration_message # None =>
                   CountOf(q.messages, m.latest_calibration_message[1])
                       <= CountOf(turns, m.latest_calibration_message[1])
                          + (IF added THEN 1 ELSE 0)

\* A request made from a history with a system entry, to which the
\* calibration message was added.
C19_Witness ==
    /\ last_request # None
    /\ \E i \in 1..Len(HistoryOf(last_request[1].context)) :
           HistoryOf(last_request[1].context)[i].role = "system"
    /\ managers[last_request[1].thread][1].latest_calibration_message # None
    /\ Len(last_request[1].messages) = 4
    /\ last_request[1].messages[3]
           = managers[last_request[1].thread][1].latest_calibration_message[1]

\* What the entries of a history that are not visible, or of the system
\* role, would be if they were sent or rendered.
Hidden(history) ==
    {OutMessage(history[i].role, history[i].content) :
        i \in {j \in 1..Len(history) : ~history[j].visible \/ history[j].role = "system"}}

\* C20: an entry recorded with visible = false and an entry of the system
\* role are in no message list sent to the model, by get_response of the
\* manager or by _create_prompt, and are not rendered by
\* display_chat_messages.
C20_HiddenNeverSent ==
    last_request # None =>
        LET q == last_request[1]
            history == HistoryOf(q.context)
            prompt == create_prompt(history, q.message, <<"Renewal form DL-1.">>)
            rendered == display_chat_messages(history)
        IN  /\ \A i \in 1..Len(q.messages) : q.messages[i] \notin Hidden(history)
            /\ \A i \in 1..Len(prompt) : prompt[i] \notin Hidden(history)
            /\ \A i \in 1..Len(rendered) : rendered[i] \notin Hidden(history)

\* C27: in every reachable state of a manager, after its construction and
\* any calls of initialize_session and of update_differentiation_level,
\* accepted or rejected, the level its StyleCalibrator holds is the level its
\* CommunicationController holds.
C27_LevelsAgree ==
    \A t \in DOMAIN managers :
        managers[t] # None =>
            managers[t][1].style_calibrator.level
                = managers[t][1].communication_controller.level

\* A Ready session whose level an update has moved to 85, after which an
\* update to 101 was rejected.
C27_Witness ==
    \E t \in DOMAIN managers :
        /\ Ready(managers, t)
        /\ managers[t][1].latest_calibration_message # None
        /\ managers[t][1].style_calibrator.level = 85
        /\ managers[t][1].communication_controller.level = 85
        /\ last_result = [thread |-> t, op |-> "update_differentiation_level",
                          value |-> MaxLevel + 1, raised |-> TRUE]

\* C28: a Ready session, whatever profile initialize_session accepted (the
\* empty profile too), has a system_prompt that is built and a project
\* folder, so that every request of get_response carries a system prompt;
\* and an update_differentiation_level on it that returns leaves a
\* calibration message.
C28_ReadyHasPrompt ==
    /\ \A t \in DOMAIN managers :
          Ready(managers, t) =>
             /\ managers[t][1].system_prompt # None
             /\ managers[t][1].current_project_folder # None
             /\ (/\ last_result.op = "update_differentiation_level"
                 /\ last_result.thread = t
                 /\ ~last_result.raised) =>
                    managers[t][1].latest_calibration_message # None
    /\ last_request # None => last_request[1].system # None

\* C29: after any calls of initialize_session and
\* update_differentiation_level, initialize_session on a recalibrated
\* session included, the latest_calibration_message of the manager is the
\* one of its current project folder, so that the message get_response
\* sends is the one the system_prompt embeds.
C29_MessageMatchesFolder ==
    /\ \A t \in DOMAIN managers :
          (managers[t] # None /\ managers[t][1].current_project_folder # None) =>
             managers[t][1].latest_calibration_message
                 = managers[t][1].current_project_folder[1].latest_calibration_message
    /\ last_request # None =>
          LET m == managers[last_request[1].thread][1]
          IN  (m.latest_calibration_message # None /\ m.system_prompt # None) =>
                 HasSection(m.system_prompt[1],
                            m.latest_calibration_message[1].content)

\* C30: after every initialize_session and update_differentiation_level that
\* completed, the system_prompt kept in the current project folder is the
\* system_prompt of the manager, the one sent to the model.
C30_FolderPromptCurrent ==
    \A t \in DOMAIN managers :
        (/\ managers[t] # None
         /\ last_result.thread = t
         /\ last_result.op \in {"initialize_session", "update_differentiation_level"}
         /\ ~last_result.raised
         /\ managers[t][1].current_project_folder # None) =>
            managers[t][1].current_project_folder[1].system_prompt
                = managers[t][1].system_prompt

\* The turn of the last call on the conversation.
Turn == chat[1].turn

\* The last call was get_response of one of the two managers and got as far
\* as its LLM call: the query is a str, the retrieval returned, the profile
\* has the keys the prompt names, the session is initialized.
ReachedLlm ==
    \/ /\ Turn.op = "get_response"
       /\ Turn.arg[1].query.type = "str"
       /\ ~Turn.arg[1].env.retrieval.raised
       /\ ~get_enhanced_system_prompt(chat[1].context.active_user_profile).raised
    \/ /\ Turn.op = "ecm_get_response"
       /\ Turn.arg[1].ready

\* What the primary and the fallback call of the last turn did.
PrimaryOutcome ==
    IF Turn.op = "get_response" THEN Turn.arg[1].env.primary ELSE Turn.arg[1].primary
FallbackOutcome ==
    IF Turn.op = "get_response" THEN Turn.arg[1].env.fallback ELSE Turn.arg[1].fallback

PrimaryModel ==
    IF Turn.op = "get_response" THEN "claude-3-5-sonnet-20241022"
    ELSE "claude-3-sonnet-20240229"
FallbackModel == "claude-3-opus-20240229"

\* C21: a turn of get_response that gets to its LLM call calls the primary
\* model exactly once, first; it calls the fallback model at most once, only
\* when the primary call raised the overloaded error, and with the same
\* messages and system prompt; a primary failure of another kind is raised
\* with no fallback call, and a fallback failure is raised with no further
\* call: at most two LLM calls a turn.
C21_FallbackProtocol ==
    (chat # None /\ Turn.op \in {"get_response", "ecm_get_response"}) =>
        LET calls == Turn.calls
        IN  /\ Len(calls) <= 2
            /\ ~ReachedLlm => calls = <<>>
            /\ ReachedLlm =>
                   /\ calls # <<>>
                   /\ calls[1].model = PrimaryModel
                   /\ \A i \in 2..Len(calls) : calls[i].model = FallbackModel
                   /\ Len(calls) = 2 <=> PrimaryOutcome.kind = "overloaded"
                   /\ Len(calls) = 2 =>
                          /\ calls[2].messages = calls[1].messages
                          /\ calls[2].system = calls[1].system
                          /\ FallbackOutcome.kind # "text" => Turn.raised
                   /\ PrimaryOutcome.kind \in {"error", "empty"} =>
                          Len(calls) = 1 /\ Turn.raised

\* A turn of each manager in which the primary model was overloaded and the
\* fallback model answered.
C21_Witness ==
    /\ chat # None
    /\ Turn.op \in {"get_response", "ecm_get_response"}
    /\ Len(Turn.calls) = 2
    /\ Turn.calls[2].model = FallbackModel
    /\ ~Turn.raised
    /\ Turn.ret = Some(IF Turn.op = "get_response" THEN <<"The fee is $50.">>
                        ELSE <<"The fee is $ 50.">>)

\* C22: get_response never raises: every turn returns a text, the response
\* of the model or a fixed non-empty apology.
C22_NeverRaises ==
    (chat # None /\ Turn.op \in {"get_response", "ecm_get_response"}) =>
        /\ ~Turn.raised
        /\ Turn.ret # None
        /\ Turn.ret # Some(<<>>)

\* C23: get_response on a context with no active user profile calls no LLM
\* and returns without raising.
C23_NoProfileNoCall ==
    (/\ chat # None
     /\ Turn.op = "get_response"
     /\ chat[1].context.active_user_profile = None) =>
        /\ Turn.calls = <<>>
        /\ ~Turn.raised

\* The LLM answered in the last turn of ConversationManager.get_response.
LlmAnswered ==
    /\ Turn.op = "get_response"
    /\ ReachedLlm
    /\ \/ PrimaryOutcome.kind = "text"
       \/ PrimaryOutcome.kind = "overloaded" /\ FallbackOutcome.kind = "text"

\* The text the LLM gave in the last turn.
LlmText ==
    IF PrimaryOutcome.kind = "text" THEN PrimaryOutcome.text ELSE FallbackOutcome.text

\* C24: when the LLM answered and update_thread raised, or the manager has
\* no storage, get_response still returns the response and the context
\* holds the new user and assistant messages; the list handed to the storage
\* never holds a message of role system.
C24_StorageFailureHarmless ==
    (chat # None /\ LlmAnswered) =>
        LET messages == chat[1].context.messages
            n == Len(messages)
        IN  /\ ~Turn.raised
            /\ Turn.ret = Some(fix_text_formatting(LlmText))
            /\ n >= 2
            /\ messages[n - 1] = HistoryEntry("user", Turn.arg[1].query.v,
                                              Turn.arg[1].visible)
            /\ messages[n] = HistoryEntry("assistant", Turn.ret[1], TRUE)
            /\ chat[1].has_storage <=> Turn.payload # None
            /\ Turn.stored <=> (chat[1].has_storage /\ Turn.arg[1].env.upload = "ok")
            /\ Turn.payload # None =>
                   /\ \A i \in 1..Len(Turn.payload[1]) :
                          Turn.payload[1][i].role # "system"
                   /\ Len(Turn.payload[1]) =
                          Cardinality({i \in 1..n : messages[i].role # "system"})

\* A turn in which the LLM answered, the upload of the thread failed, and
\* the response came back with the history extended.
C24_Witness ==
    /\ chat # None
    /\ LlmAnswered
    /\ chat[1].has_storage
    /\ Turn.arg[1].env.upload = "fail"
    /\ ~Turn.stored
    /\ ~Turn.raised
    /\ Turn.ret = Some(<<"The fee is $50.">>)
    /\ Len(chat[1].context.messages) = 3
    /\ chat[1].store[ChatThread] = None

\* The number of messages of role system in a history.
SystemMessages(messages) ==
    Cardinality({i \in 1..Len(messages) : messages[i].role = "system"})

\* C25: a turn of get_response that returns keeps the earlier history as a
\* prefix and appends the user message and then the response, preceded by
\* the system message exactly on the first call of a context; a turn that
\* raises appends no user or assistant message; no history ever holds more
\* than one system message.
C25_HistoryDiscipline ==
    [][ chat' # None =>
          LET before == chat[1].context
              after == chat'[1].context
              turn == chat'[1].turn
              first == IF before.system_message_added THEN <<>>
                       ELSE <<HistoryEntry("system", CoreSystemPrompt, TRUE)>>
          IN  /\ SystemMessages(after.messages) <= 1
              /\ (turn.op = "get_response" /\ ~turn.raised) =>
                     /\ after.messages =
                            before.messages \o first
                            \o <<HistoryEntry("user", turn.arg[1].query.v, turn.arg[1].visible),
                                 HistoryEntry("assistant", turn.ret[1], TRUE)>>
                     /\ after.system_message_added
              /\ (turn.op = "get_response" /\ turn.raised) =>
                     \/ after.messages = before.messages
                     \/ after.messages = before.messages \o first
              /\ turn.op = "ecm_get_response" => after = before
      ]_vars

\* A history of a system message and two turns, the first of them sent
\* hidden, after the second turn returned.
C25_Witness ==
    /\ chat # None
    /\ Turn.op = "get_response"
    /\ ~Turn.raised
    /\ Len(chat[1].context.messages) = 5
    /\ SystemMessages(chat[1].context.messages) = 1
    /\ chat[1].context.messages[2] = HistoryEntry("user", <<"Hello?">>, FALSE)
    /\ chat[1].context.messages[4].role = "user"

\* The id a write that returned stored its thread under.
WrittenId(turn) ==
    IF turn.op = "save_thread" THEN turn.ret[1] ELSE turn.arg[1].thread_id

\* A write that returned replaced the whole thread: reading its id gives the
\* id and exactly the messages written, in order, and no other thread
\* changed. A write that raised, and a read, changed nothing.
WholeListReplace(before, after, turn) ==
    /\ (turn.op \in {"save_thread", "update_thread"} /\ ~turn.raised) =>
           LET id == WrittenId(turn)
               read == get_chat_thread(after, id)
           IN  /\ id \in StoreIds
               /\ turn.arg[1].thread_id # "" => id = turn.arg[1].thread_id
               /\ ~read.raised
               /\ read.ret[1].thread_id = id
               /\ read.ret[1].messages = turn.arg[1].messages
               /\ \A other \in StoreIds \ {id} : after[other] = before[other]
    /\ (turn.op \in {"save_thread", "update_thread"} /\ turn.raised) => after = before
    /\ turn.op = "get_chat_thread" =>
           /\ after = before
           /\ turn.raised <=>
                  (turn.arg[1].thread_id = "" \/ before[turn.arg[1].thread_id] = None)
           /\ ~turn.raised => turn.ret[1].thread_id = turn.arg[1].thread_id

\* A write with an empty message list is rejected.
EmptyListRejected(turn) ==
    (turn.op \in {"save_thread", "update_thread"} /\ turn.arg[1].messages = <<>>) =>
        turn.raised

\* C26: thread storage is whole-list replace, last write wins: after a write
\* of msgs under a non-empty tid returned, get_chat_thread(tid) gives
\* thread_id tid and exactly msgs; a write with an empty message list is
\* rejected and changes nothing; update_thread with an empty thread id is
\* rejected and changes nothing; save_thread with an empty thread id stores
\* the messages under the id it generates and returns.
C26_LastWriteWins ==
    [][ chat' # None =>
          LET turn == chat'[1].turn
          IN  /\ WholeListReplace(chat[1].store, chat'[1].store, turn)
              /\ EmptyListRejected(turn)
              /\ (turn.op = "update_thread" /\ turn.arg[1].thread_id = "") =>
                     turn.raised
              /\ (/\ turn.op = "save_thread"
                  /\ turn.arg[1].thread_id = ""
                  /\ ~turn.raised) =>
                     /\ turn.ret[1] \in FreshIds
                     /\ chat'[1].store[turn.ret[1]] # None
      ]_vars

\* C26 as the specification has it: a write with an empty thread id is
\* rejected, whichever of the two writes it is.
C26_EmptyIdRejected ==
    [][ chat' # None =>
          LET turn == chat'[1].turn
          IN  /\ WholeListReplace(chat[1].store, chat'[1].store, turn)
              /\ EmptyListRejected(turn)
              /\ (/\ turn.op \in {"save_thread", "update_thread"}
                  /\ turn.arg[1].thread_id = "") =>
                     /\ turn.raised
                     /\ chat'[1].store = chat[1].store
      ]_vars

\* An update of the thread with one message returned and the thread reads
\* back as that message; a save with no thread id has stored two messages
\* under the id it generated.
C26_Witness ==
    /\ chat # None
    /\ Turn.op = "update_thread"
    /\ ~Turn.raised
    /\ Len(Turn.arg[1].messages) = 1
    /\ get_chat_thread(chat[1].store, ChatThread).ret[1].messages = Turn.arg[1].messages
    /\ chat[1].store["new1"] # None
    /\ Len(get_chat_thread(chat[1].store, "new1").ret[1].messages) = 2
====
